---- MODULE Spec2Model ----
(***************************************************************************)
(* A model of the incremental synchronisation engine of QuickBooksSync:   *)
(* the local store adapter (database/sqlite_db.py) and the per-entity      *)
(* sync run (sync/record_sync.py).                                         *)
(*                                                                         *)
(* Modification timestamps are ISO strings in the program, compared with   *)
(* the string order; the model writes them as positive integers with the   *)
(* same order, and 0 (NoTime) for None.                                    *)
(***************************************************************************)
EXTENDS Integers, Sequences, FiniteSets, TLC

VARIABLES
    rows,         \* the entity table: key -> stored row (its domain: the stored keys)
    tableExists,  \* whether the entity table was created
    modAffinity,  \* declared type of the modification-timestamp column
    call,         \* the last insert_records call: its arguments and returned counts
    sync_log,     \* the sync_log table: table_name -> row
    now,          \* the wall clock (seconds)
    outcome,      \* the last update_sync_timestamp call
    steps,        \* number of recorded outcomes (SpecLog)
    entity,       \* the entity type descriptor the run is about
    ext,          \* the external system's records: key -> modification time (0: none)
    pc,           \* position of the sync run
    run,          \* local variables of sync_table / _sync_with_iterator
    held,         \* history: <<key, time>> pairs the external system held during runs
    lastGood,     \* history: watermark persisted by the most recent SUCCESS run
    runs,         \* number of runs started
    schema,       \* an entity table with its columns: declared types and cell values
    sop,          \* the last schema operation: its arguments and the table before it
    registry,     \* the custom_fields_registry table
    frun,         \* the field bookkeeping of a sync run (header_fields, header_types)
    lineRows,     \* the line-item table of an entity
    lcall,        \* the last replace of line items: its arguments and the rows before it
    observed,     \* the values observed for one field, in order
    seen,         \* type resolution: position in observed and the types inferred so far
    main,         \* main(): its position, the connection and the loop of sync_tables
    rep,          \* the orphan repair: the fix attempts recorded, the pass, the touch-modify
    qry,          \* configure_query: the query object, the watermark and what was reported
    mgr           \* the sync manager: the subprocess, the reader thread and the Tk event queue

vars == <<rows, tableExists, modAffinity, call, sync_log, now, outcome, steps,
          entity, ext, pc, run, held, lastGood, runs,
          schema, sop, registry, frun, lineRows, lcall, observed, seen, main, rep, qry, mgr>>

storeVars == <<rows, tableExists, modAffinity, call>>
logVars == <<sync_log, outcome, steps>>
syncVars == <<entity, ext, pc, run, held, lastGood, runs>>
schemaVars == <<schema, sop, registry, frun>>
lineVars == <<lineRows, lcall>>
typeVars == <<observed, seen>>
mainVars == <<main, rep, qry, mgr>>
fieldVars == <<schemaVars, lineVars, typeVars, mainVars>>

----------------------------------------------------------------------------
(* Bounds *)

MaxTs == 2       \* timestamps of the upsert specification are 1..MaxTs
MaxBatch == 2    \* longest record list handed to insert_records
MaxTime == 3     \* last clock value of the sync specifications
MaxRuns == 3     \* sync runs per behaviour
MaxOutcomes == 3 \* recorded outcomes per behaviour of SpecLog

Keys == {"k1", "k2"}
NoKey == "none"      \* a record without primary key (record.get(pk) is None)
NoTime == 0          \* None as a timestamp of the sync_log

----------------------------------------------------------------------------
(* Values of the modification-timestamp field *)

NULL == [ty |-> "null", v |-> 0]
StrVal(t) == [ty |-> "str", v |-> t]
NumVal(t) == [ty |-> "num", v |-> t]
Vals == {NULL} \cup {StrVal(t) : t \in 1..MaxTs} \cup {NumVal(t) : t \in 1..MaxTs}

\* Python truthiness of a timestamp value: None and '' are false
Truthy(val) == val.ty # "null"

\* A comparison that never raises
AnyComparable(a, b) == TRUE

\* qb_modified > db_modified raises TypeError between a str and a number
Comparable(a, b) == a.ty = b.ty

\* A comparison that takes equal timestamps for newer
NewerOrSame(qb, db) == qb.v >= db.v

\* A comparison that takes the older timestamp for newer
Older(qb, db) == qb.v < db.v

\* qb_modified > db_modified
Newer(qb, db) == qb.v > db.v

\* What SQLite keeps of a bound value in a column of the declared type: a TEXT
\* column turns a number into its text; an INTEGER column keeps an ISO string
\* (which is no number) as text and a number as a number.
ColumnStore(affinity, val) ==
    IF affinity = "TEXT" /\ val.ty = "num" THEN StrVal(val.v) ELSE val

----------------------------------------------------------------------------
(* The stores and bookkeeping before anything was written to them *)

\* No entity table yet
NoTable == [exists |-> FALSE, columns |-> <<>>, cells |-> <<>>]
NoSchemaOp == [op |-> "none"]
\* custom_fields_registry: <<table_name, field_name>> -> [field_level, last_seen]
NoRegistry == <<>>
NoFieldRun == [active |-> FALSE]
NoLineCall == [done |-> FALSE]
NoSeen == [types |-> {}, resolved |-> "none"]
NoMain == [pc |-> "none"]
NoRepair == [pc |-> "none"]
NoQuery == [pc |-> "none"]
NoManager == [pc |-> "none"]

IdleFieldVars ==
    /\ schema = NoTable /\ sop = NoSchemaOp /\ registry = NoRegistry /\ frun = NoFieldRun
    /\ lineRows = {} /\ lcall = NoLineCall
    /\ observed = <<>> /\ seen = NoSeen

IdleAux == qry = NoQuery /\ mgr = NoManager

IdleFields == IdleFieldVars /\ main = NoMain /\ rep = NoRepair /\ IdleAux

----------------------------------------------------------------------------
(* SQLiteDatabase.insert_records *)

\* The state of one call: the table and the three counters
CallState(table) ==
    [rows |-> table, insert_count |-> 0, update_count |-> 0, skip_count |-> 0]

\* A skip that is not counted
SkipUncounted(st) == st

\* skip_count += 1
Skip(st) == [st EXCEPT !.skip_count = @ + 1]

\* UPDATE ... SET every column WHERE pk = ?; update_count += 1
\* (data: the position in the list of the record that wrote the row last;
\*  upd: UPDATE statements the row got in this call)
Update(st, rec, pos, affinity) ==
    [st EXCEPT !.rows[rec.key] = [tm |-> ColumnStore(affinity, rec.tm), data |-> pos,
                                  ins |-> @.ins, upd |-> @.upd + 1],
               !.update_count = @ + 1]

\* INSERT INTO ...; insert_count += 1
Insert(st, rec, pos, affinity) ==
    [st EXCEPT !.rows = (rec.key :> [tm |-> ColumnStore(affinity, rec.tm), data |-> pos,
                                     ins |-> 1, upd |-> 0]) @@ @,
               !.insert_count = @ + 1]

\* An iteration that compares the timestamps also when the update is forced
UpsertOneUnforced(st, rec, pos, affinity, force_update) ==
    IF rec.key = NoKey THEN Skip(st)
    ELSE IF rec.key \in DOMAIN st.rows
    THEN IF Truthy(rec.tm) /\ Truthy(st.rows[rec.key].tm)
            /\ Comparable(rec.tm, st.rows[rec.key].tm)
            /\ ~Newer(rec.tm, st.rows[rec.key].tm)
         THEN Skip(st)
         ELSE Update(st, rec, pos, affinity)
    ELSE Insert(st, rec, pos, affinity)

\* One iteration of the loop over the records
UpsertOne(st, rec, pos, affinity, force_update) ==
    IF rec.key = NoKey THEN Skip(st)
    ELSE IF rec.key \in DOMAIN st.rows
    THEN IF force_update THEN Update(st, rec, pos, affinity)
         ELSE LET qb_modified == rec.tm
                  db_modified == st.rows[rec.key].tm
              IN IF Truthy(qb_modified) /\ Truthy(db_modified)
                 THEN IF Comparable(qb_modified, db_modified)
                      THEN IF Newer(qb_modified, db_modified)
                           THEN Update(st, rec, pos, affinity)
                           ELSE Skip(st)
                      ELSE Update(st, rec, pos, affinity)  \* except TypeError
                 ELSE Update(st, rec, pos, affinity)
    ELSE Insert(st, rec, pos, affinity)

RECURSIVE InsertLoop(_, _, _, _, _)
InsertLoop(st, records, pos, affinity, force_update) ==
    IF pos > Len(records) THEN st
    ELSE InsertLoop(UpsertOne(st, records[pos], pos, affinity, force_update),
                    records, pos + 1, affinity, force_update)

InsertRecords(table, records, affinity, force_update) ==
    InsertLoop(CallState(table), records, 1, affinity, force_update)

----------------------------------------------------------------------------
(* The upsert specification: one insert_records call on a table *)

Records == [key : Keys \cup {NoKey}, tm : Vals]
Batches == UNION {[1..n -> Records] : n \in 0..MaxBatch}

\* A row of the table as a call finds it
OldRow(val) == [tm |-> val, data |-> 0, ins |-> 0, upd |-> 0]
StoredVals(affinity) == {ColumnStore(affinity, val) : val \in Vals}
Tables(affinity) ==
    UNION {[S -> {OldRow(val) : val \in StoredVals(affinity)}] : S \in SUBSET Keys}

NoCall == [done |-> FALSE, records |-> <<>>, force_update |-> FALSE, before |-> <<>>,
           insert_count |-> 0, update_count |-> 0, skip_count |-> 0]

InitStore ==
    /\ modAffinity \in {"TEXT", "INTEGER"}
    /\ rows \in Tables(modAffinity)
    /\ tableExists = TRUE
    /\ call = NoCall

InsertRecordsCall ==
    /\ ~call.done
    /\ \E records \in Batches, force_update \in BOOLEAN :
         LET res == InsertRecords(rows, records, modAffinity, force_update)
         IN /\ rows' = res.rows
            /\ call' = [done |-> TRUE, records |-> records, force_update |-> force_update,
                        before |-> rows, insert_count |-> res.insert_count,
                        update_count |-> res.update_count, skip_count |-> res.skip_count]
    /\ UNCHANGED <<fieldVars, tableExists, modAffinity>>

----------------------------------------------------------------------------
(* Entity type descriptors (config.py TABLE_CONFIGS) and sync statuses *)

Entities ==
    { [name |-> "invoices", iterator |-> TRUE, modified_field |-> "TimeModified"],
      [name |-> "accounts", iterator |-> FALSE, modified_field |-> "TimeModified"],
      [name |-> "qb_txn_deleted_data", iterator |-> FALSE, modified_field |-> "TimeDeleted"] }

SUCCESS == "SUCCESS"
Statuses == {"SUCCESS", "ERROR", "LOCKED", "BUSY", "EDITING", "NOT_FOUND", "NO_CONNECTION"}

\* The entity table has a column TimeModified: the columns are the extracted
\* fields, and the deletion records carry TimeDeleted instead
HasTimeModifiedColumn(e) == e.modified_field = "TimeModified"

RECURSIVE MaxOf(_)
MaxOf(S) == IF S = {} THEN 0
            ELSE LET x == CHOOSE y \in S : TRUE
                     m == MaxOf(S \ {x})
                 IN IF x > m THEN x ELSE m

\* SELECT MAX(TimeModified) FROM table WHERE TimeModified IS NOT NULL (0: no row)
MaxTimeModified(table) ==
    MaxOf({table[k].tm.v : k \in {j \in DOMAIN table : Truthy(table[j].tm)}})

\* get_record_count(table_name) if table_exists(table_name) else 0
RecordCount(exists, table) == IF exists THEN Cardinality(DOMAIN table) ELSE 0

----------------------------------------------------------------------------
(* SQLiteDatabase.get_last_sync_time *)

GetLastSyncTime(log, e, exists, table) ==
    IF /\ e.name \in DOMAIN log
       /\ log[e.name].last_status = SUCCESS
       /\ log[e.name].last_sync_time # NoTime
    THEN log[e.name].last_sync_time
    ELSE IF exists /\ HasTimeModifiedColumn(e) /\ MaxTimeModified(table) # 0
         THEN MaxTimeModified(table) + 1     \* 1 second buffer
         ELSE NoTime

----------------------------------------------------------------------------
(* SQLiteDatabase.update_sync_timestamp *)

FailureStatuses == {"LOCKED", "BUSY", "ERROR", "EDITING"}

ConsecutiveFailures(log, name, status) ==
    LET current_failures == IF name \in DOMAIN log THEN log[name].consecutive_failures ELSE 0
    IN IF status \in FailureStatuses THEN current_failures + 1 ELSE 0

PreviousOrNow(log, name, nowv) ==
    IF name \in DOMAIN log /\ log[name].last_sync_time # NoTime
    THEN log[name].last_sync_time ELSE nowv

\* "Determine what timestamp to store"
SyncTimestamp(log, e, status, max_time_modified, exists, table, nowv) ==
    IF status = SUCCESS /\ max_time_modified # NoTime
    THEN max_time_modified
    ELSE IF status = SUCCESS /\ exists
         THEN IF HasTimeModifiedColumn(e)
              THEN IF MaxTimeModified(table) # 0 THEN MaxTimeModified(table) ELSE nowv
              ELSE nowv
         ELSE PreviousOrNow(log, e.name, nowv)

\* INSERT INTO sync_log ... ON CONFLICT(table_name) DO UPDATE SET ...
UpdateSyncTimestamp(log, e, status, error_message, max_time_modified, exists, table, nowv) ==
    LET sync_timestamp == SyncTimestamp(log, e, status, max_time_modified, exists, table, nowv)
        excluded == [last_sync_time |-> sync_timestamp,
                     record_count |-> RecordCount(exists, table),
                     last_status |-> status,
                     last_error_message |-> error_message,
                     consecutive_failures |-> ConsecutiveFailures(log, e.name, status)]
    IN IF e.name \in DOMAIN log
       THEN [log EXCEPT ![e.name] =
                [excluded EXCEPT
                   !.last_sync_time = IF status = SUCCESS THEN sync_timestamp
                                      ELSE log[e.name].last_sync_time,
                   !.record_count = IF status = SUCCESS THEN excluded.record_count
                                    ELSE log[e.name].record_count]]
       ELSE (e.name :> excluded) @@ log

\* sync_log.last_sync_time of an entity (NoTime: no row, or NULL)
Watermark(log, e) == IF e.name \in DOMAIN log THEN log[e.name].last_sync_time ELSE NoTime

----------------------------------------------------------------------------
(* The sync-state specification: a sequence of recorded outcomes of one entity *)

NoLog == <<>>
NoOutcome == [done |-> FALSE, status |-> "none", max_time_modified |-> NoTime,
              before |-> NoTime, hadRow |-> FALSE]

\* An entity table holding rows with the given modification times
TableOf(S) == [k \in S |-> OldRow(StrVal(1))]

ErrorMessageOf(status) == IF status = SUCCESS THEN "none" ELSE "failed"

InitLog ==
    /\ entity \in Entities
    /\ tableExists \in BOOLEAN
    /\ rows \in (IF tableExists THEN {TableOf({}), TableOf({"k1"})} ELSE {TableOf({})})
    /\ modAffinity = "TEXT"
    /\ sync_log = NoLog
    /\ now = 1
    /\ outcome = NoOutcome
    /\ steps = 0

\* db.update_sync_timestamp(name, status=..., error_message=..., max_time_modified=...)
RecordOutcome ==
    /\ steps < MaxOutcomes
    /\ \E status \in Statuses, nowv \in now..MaxTime,
          max_time_modified \in {NoTime} \cup 1..MaxTime :
         /\ (status # SUCCESS => max_time_modified = NoTime)
         /\ sync_log' = UpdateSyncTimestamp(sync_log, entity, status, ErrorMessageOf(status),
                                            max_time_modified, tableExists, rows, nowv)
         /\ now' = nowv
         /\ outcome' = [done |-> TRUE, status |-> status,
                        max_time_modified |-> max_time_modified,
                        before |-> Watermark(sync_log, entity),
                        hadRow |-> entity.name \in DOMAIN sync_log]
    /\ steps' = steps + 1
    /\ UNCHANGED <<fieldVars, rows, tableExists, modAffinity, entity>>

----------------------------------------------------------------------------
(* The external system and the sync run of one entity (RecordSyncHandler) *)

ExtKeys == {"k1", "k2"}
BatchSize == 1       \* self.batch_size (100), scaled
FlushThreshold == 2  \* "Save every 1000 records", scaled
MaxBusy == 1         \* busy answers per run

\* Response status codes other than 0 (success) and 1 (no more records)
ErrorCodes == {3175, 3180, 3210, 500}

\* The records a query returns: all of them, or with a date filter those
\* modified at or after from_date
ExtMatching(records, from_date) ==
    {k \in ExtKeys : records[k] # 0 /\ (from_date = NoTime \/ records[k] >= from_date)}

\* _extract_batch_data: the header of each record of the page
HeaderOf(k) == [key |-> k, tm |-> StrVal(ext[k])]

RECURSIVE SeqOfSet(_)
SeqOfSet(S) == IF S = {} THEN <<>>
               ELSE LET x == CHOOSE y \in S : TRUE
                    IN <<HeaderOf(x)>> \o SeqOfSet(S \ {x})

\* batch_max_modified of _extract_batch_data
BatchMax(S) == MaxOf({ext[k] : k \in S})

\* The maximum of the last page only
KeepBatchMax(max_time_modified, batch_max_modified) ==
    IF batch_max_modified # NoTime THEN batch_max_modified ELSE max_time_modified

\* "Update max_time_modified if we found a newer timestamp"
RunningMax(max_time_modified, batch_max_modified) ==
    IF batch_max_modified # NoTime
       /\ (max_time_modified = NoTime \/ batch_max_modified > max_time_modified)
    THEN batch_max_modified ELSE max_time_modified

\* The stored rows without the per-call bookkeeping of InsertRecords
Normalize(table) == [k \in DOMAIN table |-> OldRow(table[k].tm)]

\* _save_accumulated_data -> _save_data: create_table, insert_records
SaveHeaders(table, S, force_update) ==
    Normalize(InsertRecords(table, SeqOfSet(S), "TEXT", force_update).rows)

\* _handle_qb_error: the sync status and the message of a status code
QbErrorStatus(status_code) ==
    IF status_code = 3175 THEN "LOCKED"
    ELSE IF status_code = 3180 THEN "EDITING"
    ELSE IF status_code = 3210 THEN "NOT_FOUND"
    ELSE "ERROR"
QbErrorMessage(status_code) ==
    IF status_code = 3175 THEN "Records locked by another user"
    ELSE IF status_code = 3180 THEN "List is being edited"
    ELSE IF status_code = 3210 THEN "Object not found"
    ELSE "QB Error"

\* The request the loop builds from its locals: a start request with the date
\* filter while iterator_id is None, else a continuation of iterator_id
NoRequest == [iterator |-> "none", iteratorID |-> 0, modified_since |-> NoTime]
\* A request that carries the date filter on a continuation as well
RequestFiltered(r) ==
    [iterator |-> IF r.opened THEN "Continue" ELSE "Start", iteratorID |-> r.iterator_id,
     modified_since |-> r.last_sync_time]
Request(r) ==
    IF r.opened THEN [iterator |-> "Continue", iteratorID |-> r.iterator_id, modified_since |-> NoTime]
    ELSE [iterator |-> "Start", iteratorID |-> 0, modified_since |-> r.last_sync_time]

\* The headers of S were handed to insert_records once more
HandedOver(handed, S) == [k \in ExtKeys |-> handed[k] + IF k \in S THEN 1 ELSE 0]

\* failed: the request that was answered busy last; taken: the keys of the
\* headers extracted in the run; handed: how often each was handed to the store
IdleRun == [taken |-> {}, handed |-> [k \in ExtKeys |-> 0],
            force |-> FALSE, last_sync_time |-> NoTime, iterator_id |-> 0,
            opened |-> FALSE, pending |-> {}, acc |-> {}, max_time_modified |-> NoTime,
            busy |-> 0, failed |-> NoRequest, extracted |-> {}, flushed |-> FALSE,
            errStatus |-> "none", errMessage |-> "none",
            before |-> NoTime, beforeStatus |-> "none", ended |-> "none",
            final |-> "none"]

InitRun(entities) ==
    /\ entity \in entities
    /\ ext = [k \in ExtKeys |-> 0]
    /\ now = 0
    /\ rows = <<>>
    /\ tableExists = FALSE
    /\ modAffinity = "TEXT"
    /\ call = NoCall
    /\ sync_log = NoLog
    /\ outcome = NoOutcome
    /\ steps = 0
    /\ pc = "idle"
    /\ run = IdleRun
    /\ held = {}
    /\ lastGood = NoTime
    /\ runs = 0
    /\ IdleFields

\* A record is created or modified in the external system
ExtModify ==
    /\ pc = "idle" /\ now < MaxTime
    /\ \E k \in ExtKeys : ext' = [ext EXCEPT ![k] = now + 1]
    /\ now' = now + 1
    /\ UNCHANGED <<fieldVars, storeVars, logVars, entity, pc, run, held, lastGood, runs>>

\* A record is deleted in the external system
ExtDelete ==
    /\ pc = "idle" /\ now < MaxTime
    /\ \E k \in ExtKeys : ext[k] # 0 /\ ext' = [ext EXCEPT ![k] = 0]
    /\ now' = now + 1
    /\ UNCHANGED <<fieldVars, storeVars, logVars, entity, pc, run, held, lastGood, runs>>

\* sync_table up to the call of _sync_with_iterator / _sync_without_iterator
StartSync ==
    /\ pc = "idle" /\ runs < MaxRuns
    /\ \E force_full_sync \in BOOLEAN :
         run' = [IdleRun EXCEPT
                   !.force = force_full_sync,
                   !.last_sync_time =
                       IF force_full_sync THEN NoTime
                       ELSE GetLastSyncTime(sync_log, entity, tableExists, rows),
                   !.before = Watermark(sync_log, entity),
                   !.beforeStatus = IF entity.name \in DOMAIN sync_log
                                    THEN sync_log[entity.name].last_status ELSE "none"]
    /\ pc' = IF entity.iterator THEN "loop" ELSE "request"
    /\ held' = held \cup {<<k, ext[k]>> : k \in {j \in ExtKeys : ext[j] # 0}}
    /\ runs' = runs + 1
    /\ now' = IF now = 0 \/ \E k \in ExtKeys : ext[k] = now THEN now + 1 ELSE now
                          \* the run is later than every modification before it
    /\ UNCHANGED <<fieldVars, storeVars, logVars, entity, ext, lastGood>>

----------------------------------------------------------------------------
(* The run of one entity *)

\* The run is over: the sync-state row is newLog's, the locals are dropped
\* (ended: how the run left its loop; final: the status it recorded last)
EndRunFrom(r, newLog, how) ==
    /\ sync_log' = newLog
    /\ pc' = "idle"
    /\ run' = [r EXCEPT !.ended = how, !.pending = {}, !.acc = {}, !.iterator_id = 0,
                          !.opened = FALSE, !.busy = 0,
                          !.final = IF newLog = sync_log
                                       /\ how \in {"session_invalid", "interrupted"}
                                    THEN "none" ELSE newLog[entity.name].last_status]
    /\ lastGood' = IF entity.name \in DOMAIN newLog /\ newLog[entity.name].last_status = SUCCESS
                   THEN newLog[entity.name].last_sync_time ELSE lastGood

EndRun(newLog, how) == EndRunFrom(run, newLog, how)

\* Every request starts the iterator anew
PendingRestarted(applied) ==
    ExtMatching(ext, IF applied THEN run.last_sync_time ELSE NoTime)

\* The records the server side of a request still has to deliver: on the first
\* request those the query selects (the date filter may not have been applied)
Pending(applied) ==
    IF run.opened THEN run.pending
    ELSE ExtMatching(ext, IF applied THEN run.last_sync_time ELSE NoTime)

\* _create_query returned None: "Failed to create query", break
QueryCreateFails ==
    /\ pc = "loop"
    /\ pc' = "final"
    /\ run' = [run EXCEPT !.ended = "query_failed"]
    /\ UNCHANGED <<fieldVars, storeVars, logVars, now, entity, ext, held, lastGood, runs>>

\* A busy answer after which the iteration starts over
RequestBusyRestarting ==
    /\ pc = "loop" /\ run.busy < MaxBusy
    /\ run' = [run EXCEPT !.busy = @ + 1, !.failed = Request(run),
                          !.opened = FALSE, !.iterator_id = 0]
    /\ UNCHANGED <<fieldVars, storeVars, logVars, now, entity, ext, pc, held, lastGood, runs>>

\* do_requests raised a busy com_error: sleep 2 seconds, continue
RequestBusy ==
    /\ pc = "loop" /\ run.busy < MaxBusy
    /\ run' = [run EXCEPT !.busy = @ + 1, !.failed = Request(run)]
    /\ UNCHANGED <<fieldVars, storeVars, logVars, now, entity, ext, pc, held, lastGood, runs>>

\* do_requests raised another com_error: re-raised to sync_table, _handle_com_error
RequestComError ==
    /\ pc = "loop"
    /\ \E session_invalid \in BOOLEAN :
         EndRun(IF session_invalid THEN sync_log
                ELSE UpdateSyncTimestamp(sync_log, entity, "ERROR", "com_error", NoTime,
                                         tableExists, rows, now),
                IF session_invalid THEN "session_invalid" ELSE "com_error")
    /\ UNCHANGED <<fieldVars, storeVars, outcome, steps, now, entity, ext, held, runs>>

\* response_msg_set.ResponseList.Count == 0: "No response", break
ResponseListEmpty ==
    /\ pc = "loop"
    /\ pc' = "final"
    /\ run' = [run EXCEPT !.ended = "no_response"]
    /\ UNCHANGED <<fieldVars, storeVars, logVars, now, entity, ext, held, lastGood, runs>>

\* status_code not in {0, 1}: _handle_qb_error, break
ErrorResponse ==
    /\ pc = "loop"
    /\ \E status_code \in ErrorCodes :
         /\ sync_log' = UpdateSyncTimestamp(sync_log, entity, QbErrorStatus(status_code),
                                            QbErrorMessage(status_code), NoTime,
                                            tableExists, rows, now)
         /\ run' = [run EXCEPT !.errStatus = QbErrorStatus(status_code),
                               !.errMessage = QbErrorMessage(status_code),
                               !.ended = "qb_error"]
    /\ pc' = "final"
    /\ UNCHANGED <<fieldVars, storeVars, outcome, steps, now, entity, ext, held, lastGood, runs>>

\* status_code == 1, or status 0 with no Detail: break
NoMoreRecords ==
    /\ pc = "loop"
    /\ \E applied \in BOOLEAN : Pending(applied) = {}
    /\ pc' = "final"
    /\ run' = [run EXCEPT !.ended = "no_records"]
    /\ UNCHANGED <<fieldVars, storeVars, logVars, now, entity, ext, held, lastGood, runs>>

\* The iteratorID values a response may carry
Tokens == {1, 2}

\* status_code == 0 with a page of records: extract, accumulate, flush at the
\* threshold, and leave the loop when nothing remains
PageResponse ==
    /\ pc = "loop"
    /\ \E applied \in BOOLEAN, iteratorID \in Tokens :
       \E page \in SUBSET Pending(applied) :
         /\ page # {} /\ Cardinality(page) <= BatchSize
         /\ LET remaining == Pending(applied) \ page
                accumulated == run.acc \cup page
                flush == Cardinality(accumulated) >= FlushThreshold
            IN /\ run' = [run EXCEPT
                            !.opened = TRUE,
                            !.iterator_id = iteratorID,
                            !.pending = remaining,
                            !.max_time_modified = RunningMax(@, BatchMax(page)),
                            !.extracted = @ \cup {ext[k] : k \in page},
                            !.taken = @ \cup page,
                            !.handed = IF flush THEN HandedOver(@, accumulated) ELSE @,
                            !.acc = IF flush THEN {} ELSE accumulated,
                            !.flushed = @ \/ flush,
                            !.ended = IF remaining = {} THEN "complete" ELSE @]
               /\ rows' = IF flush THEN SaveHeaders(rows, accumulated, run.force) ELSE rows
               /\ tableExists' = (tableExists \/ flush)
               /\ pc' = IF remaining = {} THEN "final" ELSE "loop"
    /\ UNCHANGED <<fieldVars, modAffinity, call, logVars, now, entity, ext, held, lastGood, runs>>

\* status_code == 0 with a page of records whose response carries no
\* iteratorID although records remain: extract, accumulate, flush at the
\* threshold, "Iterator complete", break
PageWithoutToken ==
    /\ pc = "loop"
    /\ \E applied \in BOOLEAN :
       \E page \in SUBSET Pending(applied) :
         /\ page # {} /\ Cardinality(page) <= BatchSize
         /\ Pending(applied) \ page # {}
         /\ LET accumulated == run.acc \cup page
                flush == Cardinality(accumulated) >= FlushThreshold
            IN /\ run' = [run EXCEPT
                            !.opened = TRUE,
                            !.iterator_id = 0,
                            !.pending = Pending(applied) \ page,
                            !.max_time_modified = RunningMax(@, BatchMax(page)),
                            !.extracted = @ \cup {ext[k] : k \in page},
                            !.taken = @ \cup page,
                            !.handed = IF flush THEN HandedOver(@, accumulated) ELSE @,
                            !.acc = IF flush THEN {} ELSE accumulated,
                            !.flushed = @ \/ flush,
                            !.ended = "no_token"]
               /\ rows' = IF flush THEN SaveHeaders(rows, accumulated, run.force) ELSE rows
               /\ tableExists' = (tableExists \/ flush)
               /\ pc' = "final"
    /\ UNCHANGED <<fieldVars, modAffinity, call, logVars, now, entity, ext, held, lastGood, runs>>

\* A finalization that drops what is still accumulated
FinalizeWithoutFlush ==
    /\ pc = "final"
    /\ EndRun(UpdateSyncTimestamp(sync_log, entity, SUCCESS, "none",
                                  run.max_time_modified, tableExists, rows, now),
              run.ended)
    /\ UNCHANGED <<fieldVars, storeVars, outcome, steps, now, entity, ext, held, runs>>

\* After the loop: "Save any remaining data", then update_sync_timestamp
Finalize ==
    /\ pc = "final"
    /\ LET flush == run.acc # {}
           table == IF flush THEN SaveHeaders(rows, run.acc, run.force) ELSE rows
       IN /\ rows' = table
          /\ tableExists' = (tableExists \/ flush)
          /\ EndRunFrom([run EXCEPT !.handed = HandedOver(@, run.acc)],
                        UpdateSyncTimestamp(sync_log, entity, SUCCESS, "none",
                                            run.max_time_modified, tableExists \/ flush,
                                            table, now),
                        run.ended)
    /\ UNCHANGED <<fieldVars, modAffinity, call, outcome, steps, now, entity, ext, held, runs>>

\* Any other exception inside the run (sync_table's except Exception)
RaiseException ==
    /\ pc \in {"loop", "final", "request"}
    /\ EndRun(UpdateSyncTimestamp(sync_log, entity, "ERROR", "exception", NoTime,
                                  tableExists, rows, now),
              "exception")
    /\ UNCHANGED <<fieldVars, storeVars, outcome, steps, now, entity, ext, held, runs>>

\* KeyboardInterrupt inside the loop: neither except clause of sync_table
\* catches it, the locals of _sync_with_iterator are dropped with the frame
KeyboardInterrupt ==
    /\ pc = "loop"
    /\ EndRun(sync_log, "interrupted")
    /\ UNCHANGED <<fieldVars, storeVars, outcome, steps, now, entity, ext, held, runs>>

----------------------------------------------------------------------------
(* _sync_without_iterator and _process_response: one request, one page *)

\* _create_query returned None: status ERROR "Failed to create query"
NoIterQueryFails ==
    /\ pc = "request"
    /\ EndRun(UpdateSyncTimestamp(sync_log, entity, "ERROR", "Failed to create query",
                                  NoTime, tableExists, rows, now),
              "query_failed")
    /\ UNCHANGED <<fieldVars, storeVars, outcome, steps, now, entity, ext, held, runs>>

\* do_requests raised a com_error: _handle_com_error
NoIterComError ==
    /\ pc = "request"
    /\ \E kind \in {"busy", "session_invalid", "com_error"} :
         EndRun(IF kind = "session_invalid" THEN sync_log
                ELSE UpdateSyncTimestamp(sync_log, entity,
                                         IF kind = "busy" THEN "BUSY" ELSE "ERROR",
                                         IF kind = "busy" THEN "QuickBooks busy" ELSE "com_error",
                                         NoTime, tableExists, rows, now),
                kind)
    /\ UNCHANGED <<fieldVars, storeVars, outcome, steps, now, entity, ext, held, runs>>

\* ResponseList.Count == 0: status SUCCESS without a maximum
NoIterResponseListEmpty ==
    /\ pc = "request"
    /\ EndRun(UpdateSyncTimestamp(sync_log, entity, SUCCESS, "none", NoTime,
                                  tableExists, rows, now),
              "no_response")
    /\ UNCHANGED <<fieldVars, storeVars, outcome, steps, now, entity, ext, held, runs>>

\* status_code not in {0, 1}: _handle_qb_error, return
NoIterErrorResponse ==
    /\ pc = "request"
    /\ \E status_code \in ErrorCodes :
         /\ EndRun(UpdateSyncTimestamp(sync_log, entity, QbErrorStatus(status_code),
                                       QbErrorMessage(status_code), NoTime,
                                       tableExists, rows, now),
                   "qb_error")
    /\ UNCHANGED <<fieldVars, storeVars, outcome, steps, now, entity, ext, held, runs>>

\* status_code == 1, Detail None or Count == 0: status SUCCESS without a maximum
NoIterNoRecords ==
    /\ pc = "request"
    /\ \E applied \in BOOLEAN : Pending(applied) = {}
    /\ EndRun(UpdateSyncTimestamp(sync_log, entity, SUCCESS, "none", NoTime,
                                  tableExists, rows, now),
              "no_records")
    /\ UNCHANGED <<fieldVars, storeVars, outcome, steps, now, entity, ext, held, runs>>

\* status_code == 0 with records: _extract_and_save_records, status SUCCESS
\* with the maximum of the page
NoIterResponse ==
    /\ pc = "request"
    /\ \E applied \in BOOLEAN :
         LET page == Pending(applied)
             table == SaveHeaders(rows, page, run.force)
         IN /\ page # {}
            /\ rows' = table
            /\ tableExists' = TRUE
            /\ sync_log' = UpdateSyncTimestamp(sync_log, entity, SUCCESS, "none",
                                               BatchMax(page), TRUE, table, now)
            /\ pc' = "idle"
            /\ run' = [run EXCEPT !.ended = "complete", !.flushed = TRUE,
                                  !.final = SUCCESS,
                                  !.max_time_modified = BatchMax(page),
                                  !.extracted = {ext[k] : k \in page},
                                  !.taken = page,
                                  !.handed = HandedOver(@, page)]
            /\ lastGood' = BatchMax(page)
    /\ UNCHANGED <<fieldVars, modAffinity, call, outcome, steps, now, entity, ext, held, runs>>

----------------------------------------------------------------------------
(* Specifications *)

IdleSync ==
    /\ entity = CHOOSE e \in Entities : e.iterator
    /\ ext = [k \in ExtKeys |-> 0]
    /\ pc = "idle" /\ run = IdleRun /\ held = {} /\ lastGood = NoTime /\ runs = 0

\* Sync runs of an entity with iterator support against a changing external system
InitSync == InitRun({e \in Entities : e.iterator})

NextSync ==
    \/ ExtModify \/ ExtDelete \/ StartSync
    \/ QueryCreateFails \/ RequestBusy \/ RequestComError \/ ResponseListEmpty
    \/ ErrorResponse \/ NoMoreRecords \/ PageResponse \/ PageWithoutToken \/ Finalize
    \/ RaiseException \/ KeyboardInterrupt

Spec == InitSync /\ [][NextSync]_vars

\* Sync runs of the entities without iterator support
InitSingle == InitRun({e \in Entities : ~e.iterator})

NextSingle ==
    \/ ExtModify \/ ExtDelete \/ StartSync
    \/ NoIterQueryFails \/ NoIterComError \/ NoIterResponseListEmpty
    \/ NoIterErrorResponse \/ NoIterNoRecords \/ NoIterResponse \/ RaiseException

SpecSingle == InitSingle /\ [][NextSingle]_vars

\* One insert_records call on any table
InitUpsert ==
    /\ InitStore
    /\ sync_log = NoLog /\ now = 1 /\ outcome = NoOutcome /\ steps = 0
    /\ IdleSync
    /\ IdleFields

NextUpsert == InsertRecordsCall /\ UNCHANGED <<fieldVars, logVars, now, syncVars>>

SpecUpsert == InitUpsert /\ [][NextUpsert]_vars

\* Any sequence of recorded sync outcomes of one entity
InitOutcomes ==
    /\ InitLog
    /\ call = NoCall /\ ext = [k \in ExtKeys |-> 0]
    /\ pc = "idle" /\ run = IdleRun /\ held = {} /\ lastGood = NoTime /\ runs = 0
    /\ IdleFields

NextOutcomes == RecordOutcome /\ UNCHANGED <<fieldVars, call, ext, pc, run, held, lastGood, runs>>

SpecLog == InitOutcomes /\ [][NextOutcomes]_vars

----------------------------------------------------------------------------
(* Claims about the sync run (Spec, SpecSingle) *)

\* The watermark the next incremental run will use
NextWatermark == GetLastSyncTime(sync_log, entity, tableExists, rows)

\* The record <<key, time>> or a later version of it is in the entity table
Persisted(p) == p[1] \in DOMAIN rows /\ rows[p[1]].tm.v >= p[2]

\* C1: no silent data loss. Between runs, every record the external system
\* held during an earlier run with a modification time at or below the
\* watermark of the next incremental run is in the local store.
C1_NoSilentDataLoss ==
    (pc = "idle" /\ NextWatermark # NoTime) =>
        \A p \in held : p[2] <= NextWatermark => Persisted(p)

\* C3: after an iterator run that recorded SUCCESS and extracted at least one
\* header, the persisted watermark is the maximum modification time over all
\* headers extracted on all pages of the run.
C3_WatermarkIsMaxExtracted ==
    (pc = "idle" /\ run.final = SUCCESS /\ run.extracted # {}) =>
        Watermark(sync_log, entity) = MaxOf(run.extracted)

\* C3 witness: a SUCCESS run that extracted two headers on two pages and
\* flushed in between
C3_Witness ==
    /\ pc = "idle" /\ run.final = SUCCESS /\ run.ended = "complete"
    /\ Cardinality(run.extracted) = 2 /\ run.flushed
    /\ Watermark(sync_log, entity) = MaxOf(run.extracted)

\* C4: when a page response carried an error status code, the sync-state of
\* the entity at the end of the run has the status and the message of that
\* response.
C4_ErrorStatusRecorded ==
    (pc = "idle" /\ run.ended = "qb_error") =>
        /\ sync_log[entity.name].last_status = run.errStatus
        /\ sync_log[entity.name].last_error_message = run.errMessage

\* C5: when a page request was answered with an error, locked or editing
\* status, the persisted watermark after the run is the watermark before it.
C5_ErrorKeepsWatermark ==
    (pc = "idle" /\ run.ended = "qb_error") =>
        Watermark(sync_log, entity) = run.before

\* C6: the "modified since" value of an incremental run is the watermark
\* persisted by the most recent run that ended with status SUCCESS.
C6_ModifiedSinceIsLastSuccess ==
    (pc # "idle" /\ ~run.force /\ lastGood # NoTime) =>
        run.last_sync_time = lastGood

\* C8: an incremental run that follows a successful run and receives no
\* records ends with status SUCCESS and leaves the persisted watermark as it
\* was before the run.
C8_EmptyRunKeepsWatermark ==
    (pc = "idle" /\ run.ended = "no_records" /\ ~run.force
        /\ run.beforeStatus = SUCCESS) =>
        /\ run.final = SUCCESS
        /\ Watermark(sync_log, entity) = run.before

----------------------------------------------------------------------------
(* Claims about the sync-state row (SpecLog) *)

\* C2: recording an outcome whose status is not SUCCESS leaves the stored
\* watermark of the entity exactly as it was before, also when no sync-state
\* row existed before (the watermark then stays absent).
C2_NonSuccessKeepsWatermark ==
    (outcome.done /\ outcome.status # SUCCESS) =>
        Watermark(sync_log, entity) = outcome.before

----------------------------------------------------------------------------
(* Claims about insert_records (SpecUpsert) *)

\* The positions of the list of the call
Positions == 1..Len(call.records)

\* Every record of the call is a stored row: its key is stored and its
\* modification timestamp is the stored one
BatchIsStored ==
    \A i \in Positions :
        /\ call.records[i].key \in DOMAIN call.before
        /\ call.before[call.records[i].key].tm = call.records[i].tm

NothingWritten ==
    /\ call.insert_count = 0 /\ call.update_count = 0
    /\ call.skip_count = Len(call.records)
    /\ rows = call.before

\* C7 as stated: re-applying, without force, a batch identical to what is
\* stored performs zero inserts and zero updates; every record is counted as
\* skipped and no stored row changes.
C7_ReapplyWritesNothing ==
    (call.done /\ ~call.force_update /\ BatchIsStored) => NothingWritten

\* C7 amended: the same, for a batch in which every record carries a
\* modification timestamp.
C7_ReapplyTimestampedWritesNothing ==
    (call.done /\ ~call.force_update /\ BatchIsStored
        /\ \A i \in Positions : call.records[i].tm.ty # "null") => NothingWritten

\* C7 witness: two stored records with timestamps were re-applied and skipped
C7_Witness ==
    /\ call.done /\ ~call.force_update /\ BatchIsStored
    /\ Len(call.records) = 2 /\ call.records[1].key # call.records[2].key
    /\ \A i \in Positions : call.records[i].tm.ty # "null"
    /\ call.skip_count = 2 /\ rows = call.before


\* The record at position i is the only one of the list with its key
OnlyOfItsKey(i) ==
    \A j \in Positions : call.records[j].key = call.records[i].key => j = i

\* What the column keeps of the timestamp of the record at position i
StoredTm(i) ==
    IF modAffinity = "TEXT" /\ call.records[i].tm.ty = "num"
    THEN [ty |-> "str", v |-> call.records[i].tm.v] ELSE call.records[i].tm

\* The row of the record at position i was written by that record
WrittenBy(i) ==
    /\ call.records[i].key \in DOMAIN rows
    /\ rows[call.records[i].key].data = i
    /\ rows[call.records[i].key].tm = StoredTm(i)

Inserted(i) == WrittenBy(i) /\ rows[call.records[i].key].ins = 1
                            /\ rows[call.records[i].key].upd = 0
Overwritten(i) == WrittenBy(i) /\ rows[call.records[i].key].ins = 0
                               /\ rows[call.records[i].key].upd = 1
Untouched(i) == rows[call.records[i].key] = call.before[call.records[i].key]

\* The incoming timestamp of position i against the stored one
IncomingMissing(i) == call.records[i].tm.ty = "null"
StoredMissing(i) == call.before[call.records[i].key].tm.ty = "null"
Incomparable(i) == call.records[i].tm.ty # call.before[call.records[i].key].tm.ty
StrictlyNewer(i) == call.records[i].tm.v > call.before[call.records[i].key].tm.v

\* C9: the upsert decision for a record with a key. No row with the key: the
\* record is inserted. A row and force: overwritten. A row and no force:
\* overwritten when the incoming timestamp is strictly newer than the stored
\* one, or either is missing, or the two cannot be compared; left unchanged
\* when the incoming timestamp is equal to or older than the stored one.
C9_UpsertDecision ==
    call.done =>
        \A i \in Positions :
            (call.records[i].key # NoKey /\ OnlyOfItsKey(i)) =>
                IF call.records[i].key \notin DOMAIN call.before THEN Inserted(i)
                ELSE IF call.force_update THEN Overwritten(i)
                ELSE IF IncomingMissing(i) \/ StoredMissing(i) \/ Incomparable(i)
                        \/ StrictlyNewer(i)
                     THEN Overwritten(i)
                     ELSE Untouched(i)

\* C9 witness: one call, without force, that inserted one record and overwrote
\* a stored row whose timestamp could not be compared with the incoming one
C9_Witness ==
    /\ call.done /\ ~call.force_update /\ Len(call.records) = 2
    /\ call.records[1].key # NoKey /\ call.records[2].key # NoKey
    /\ call.records[1].key # call.records[2].key
    /\ call.records[1].key \notin DOMAIN call.before /\ Inserted(1)
    /\ call.records[2].key \in DOMAIN call.before
    /\ ~IncomingMissing(2) /\ ~StoredMissing(2) /\ Incomparable(2) /\ ~StrictlyNewer(2)
    /\ Overwritten(2)

RECURSIVE Sum(_, _)
Sum(f, S) == IF S = {} THEN 0
             ELSE LET x == CHOOSE y \in S : TRUE IN f[x] + Sum(f, S \ {x})

\* UPDATE statements the rows got in the call
RowsOverwritten == Sum([k \in DOMAIN rows |-> rows[k].upd], DOMAIN rows)

----------------------------------------------------------------------------
(* The old variables of a specification that does not use them *)

IdleCore ==
    /\ rows = <<>> /\ tableExists = FALSE /\ modAffinity = "TEXT" /\ call = NoCall
    /\ sync_log = NoLog /\ now = 0 /\ outcome = NoOutcome /\ steps = 0
    /\ IdleSync /\ main = NoMain /\ rep = NoRepair /\ IdleAux

coreVars == <<storeVars, logVars, now, syncVars, mainVars>>

----------------------------------------------------------------------------
(* Table schemas: SQLiteDatabase.create_table, add_column and the widening *)
(* loop of insert_records                                                  *)

MaxFields == 2     \* longest fields_dict handed to create_table

\* Field names as the program spells them. SQLite compares column names
\* without regard to case, Python's "in" compares the spelling.
FieldNames == {"TxnID", "Memo", "memo"}
Lower(name) == IF name = "Memo" THEN "memo"
               ELSE IF name = "TxnID" THEN "txnid" ELSE name
SameColumn(a, b) == Lower(a) = Lower(b)

ColumnTypes == {"TEXT", "INTEGER", "REAL"}
CellValues == {"null", "a"}

\* A fields_dict: a Python dict keeps its insertion order, so it is a list of
\* <<name, type>> pairs with distinct names
NamesOf(fields_dict) == {fields_dict[i][1] : i \in 1..Len(fields_dict)}
IsDict(fields_dict) ==
    \A i, j \in 1..Len(fields_dict) : fields_dict[i][1] = fields_dict[j][1] => i = j
FieldDicts ==
    {d \in UNION {[1..n -> FieldNames \X ColumnTypes] : n \in 0..MaxFields} : IsDict(d)}

\* SQLite finds a column of that name in the table
HasColumn(columns, name) == \E c \in DOMAIN columns : SameColumn(c, name)

\* A variant of add_column that gives an existing column the type asked for
AddColumnRetyping(tbl, column_name, column_type) ==
    IF ~tbl.exists THEN tbl
    ELSE [tbl EXCEPT !.columns = (column_name :> column_type) @@ @,
                     !.cells = [k \in DOMAIN @ |-> (column_name :> "null") @@ @[k]]]

\* add_column: nothing when PRAGMA table_info lists the name; ALTER TABLE ADD
\* COLUMN otherwise, whose "duplicate column name" error is swallowed. The rows
\* of the table hold NULL in the new column. (No table: ALTER raises.)
AddColumn(tbl, column_name, column_type) ==
    IF ~tbl.exists THEN tbl
    ELSE IF column_name \in DOMAIN tbl.columns THEN tbl
    ELSE IF HasColumn(tbl.columns, column_name) THEN tbl
    ELSE [tbl EXCEPT !.columns = (column_name :> column_type) @@ @,
                     !.cells = [k \in DOMAIN @ |-> (column_name :> "null") @@ @[k]]]

\* create_table on an existing table: add_column for every field of
\* fields_dict that is no key of existing_columns, in the order of the dict
RECURSIVE AddMissing(_, _, _)
AddMissing(tbl, fields_dict, i) ==
    IF i > Len(fields_dict) THEN tbl
    ELSE AddMissing(AddColumn(tbl, fields_dict[i][1], fields_dict[i][2]),
                    fields_dict, i + 1)

\* create_table of a new table: "Ensure we have at least the primary key"
WithPrimaryKey(fields_dict, primary_key) ==
    IF Len(fields_dict) = 0 THEN << <<primary_key, "TEXT">> >>
    ELSE IF primary_key \notin NamesOf(fields_dict)
         THEN Append(fields_dict, <<primary_key, "TEXT">>)
         ELSE fields_dict

\* CREATE TABLE raises "duplicate column name" on two spellings of one name
Creatable(fields_dict) ==
    \A i, j \in 1..Len(fields_dict) :
        SameColumn(fields_dict[i][1], fields_dict[j][1]) => i = j

CreateTable(tbl, fields_dict, primary_key) ==
    IF tbl.exists THEN AddMissing(tbl, fields_dict, 1)
    ELSE LET fd == WithPrimaryKey(fields_dict, primary_key)
         IN IF Creatable(fd)
            THEN [exists |-> TRUE,
                  columns |-> [n \in NamesOf(fd) |->
                                  fd[CHOOSE i \in 1..Len(fd) : fd[i][1] = n][2]],
                  cells |-> <<>>]
            ELSE tbl


\* A record: a dict of field values, a list of <<name, value>> pairs with
\* distinct names; record.get(name) is None ("null") for a missing name
RecordDicts ==
    {d \in UNION {[1..n -> FieldNames \X CellValues] : n \in 0..Cardinality(FieldNames)} :
        /\ IsDict(d)
        /\ \A i \in 1..Len(d) : d[i][2] = "null" => d[i][1] = "TxnID"}
Get(record, name) ==
    IF name \in NamesOf(record)
    THEN record[CHOOSE i \in 1..Len(record) : record[i][1] = name][2]
    ELSE "null"

\* insert_records, "Ensure all fields exist": a field of the record that is
\* not in fields_dict is put there as TEXT and add_column is called for it
RECURSIVE Widen(_, _, _)
Widen(st, record, i) ==
    IF i > Len(record) THEN st
    ELSE IF record[i][1] \in NamesOf(st.fields_dict) THEN Widen(st, record, i + 1)
    ELSE Widen([tbl |-> AddColumn(st.tbl, record[i][1], "TEXT"),
                fields_dict |-> Append(st.fields_dict, <<record[i][1], "TEXT">>)],
               record, i + 1)

\* The positions of fields_dict whose name SQLite takes for the column
Naming(fields_dict, column) ==
    {i \in 1..Len(fields_dict) : SameColumn(fields_dict[i][1], column)}
Min(S) == CHOOSE x \in S : \A y \in S : x <= y
Max(S) == CHOOSE x \in S : \A y \in S : x >= y

\* INSERT INTO t (columns of fields_dict) VALUES (record.get(col) ...): a
\* column named twice takes the first value, a column not named is NULL
InsertedRow(tbl, fields_dict, record) ==
    [c \in DOMAIN tbl.columns |->
        IF Naming(fields_dict, c) = {} THEN "null"
        ELSE Get(record, fields_dict[Min(Naming(fields_dict, c))][1])]

\* UPDATE t SET col = record.get(col) ...: a column named twice takes the last
\* value, a column not named keeps its value
UpdatedRow(tbl, fields_dict, record, old) ==
    [c \in DOMAIN tbl.columns |->
        IF Naming(fields_dict, c) = {} THEN old[c]
        ELSE Get(record, fields_dict[Max(Naming(fields_dict, c))][1])]

\* One record of insert_records on a table with columns (update: what the
\* comparison of the modification timestamps, or force_update, decides)
WriteRecord(st, record, primary_key, update) ==
    LET w == Widen(st, record, 1)
        pk_value == Get(record, primary_key)
    IN IF pk_value = "null" THEN w
       ELSE IF pk_value \in DOMAIN w.tbl.cells
            THEN IF update
                 THEN [w EXCEPT !.tbl.cells[pk_value] =
                          UpdatedRow(w.tbl, w.fields_dict, record, @)]
                 ELSE w
            ELSE [w EXCEPT !.tbl.cells =
                     (pk_value :> InsertedRow(w.tbl, w.fields_dict, record)) @@ @]

RECURSIVE WriteRecords(_, _, _, _, _)
WriteRecords(st, records, i, primary_key, update) ==
    IF i > Len(records) THEN st
    ELSE WriteRecords(WriteRecord(st, records[i], primary_key, update),
                      records, i + 1, primary_key, update)

\* _save_data, header part: the key field is put into the types, create_table,
\* insert_records (a failed CREATE TABLE raises before insert_records)
WithKeyField(fields_dict, key_field) ==
    IF key_field \in NamesOf(fields_dict) THEN fields_dict
    ELSE Append(fields_dict, <<key_field, "TEXT">>)

SaveRecords(tbl, fields_dict, records, key_field, update) ==
    LET fd == WithKeyField(fields_dict, key_field)
        created == CreateTable(tbl, fd, key_field)
    IN IF ~created.exists THEN [tbl |-> tbl, fields_dict |-> fd]
       ELSE WriteRecords([tbl |-> created, fields_dict |-> fd], records, 1,
                         key_field, update)


\* The schema specification: create_table, add_column and _save_data calls on
\* one entity table, in any order

KeyField == "TxnID"

\* The fields of a fields_dict that SQLite does not find in the table, with
\* the types asked for
Missing(tbl, fields_dict) ==
    LET absent == {i \in 1..Len(fields_dict) : ~HasColumn(tbl.columns, fields_dict[i][1])}
    IN [name \in {fields_dict[i][1] : i \in absent} |->
           fields_dict[CHOOSE i \in absent : fields_dict[i][1] = name][2]]

InitSchemaOps ==
    /\ IdleCore
    /\ schema = NoTable /\ sop = NoSchemaOp
    /\ registry = NoRegistry /\ frun = NoFieldRun
    /\ lineRows = {} /\ lcall = NoLineCall /\ observed = <<>> /\ seen = NoSeen

CreateTableCall ==
    /\ \E fields_dict \in FieldDicts :
         /\ schema' = CreateTable(schema, fields_dict, KeyField)
         /\ sop' = [op |-> "create_table", before |-> schema,
                    missing |-> Missing(schema, fields_dict)]
    /\ UNCHANGED <<coreVars, registry, frun, lineVars, typeVars>>

AddColumnCall ==
    /\ \E column_name \in FieldNames, column_type \in ColumnTypes :
         /\ schema' = AddColumn(schema, column_name, column_type)
         /\ sop' = [op |-> "add_column", before |-> schema,
                    missing |-> Missing(schema, << <<column_name, column_type>> >>)]
    /\ UNCHANGED <<coreVars, registry, frun, lineVars, typeVars>>

\* The fields_dict _save_data resolves: the tracked fields (the types other
\* than TEXT come in through create_table calls)
SaveDicts ==
    {dd \in FieldDicts : /\ Len(dd) < MaxFields
                         /\ \A i \in 1..Len(dd) : dd[i][2] = "TEXT"}

\* _save_data of one header record: create_table, then insert_records, the
\* only call of insert_records in the program
SaveRecordsCall ==
    /\ \E fields_dict \in SaveDicts, record \in RecordDicts, update \in BOOLEAN :
         /\ schema' = SaveRecords(schema, fields_dict, <<record>>, KeyField, update).tbl
         /\ sop' = [op |-> "save_data", before |-> schema, missing |-> <<>>]
    /\ UNCHANGED <<coreVars, registry, frun, lineVars, typeVars>>

NextSchemaOps == CreateTableCall \/ AddColumnCall \/ SaveRecordsCall

SpecSchema == InitSchemaOps /\ [][NextSchemaOps]_vars

----------------------------------------------------------------------------
(* Claims about table schemas (SpecSchema) *)

\* Every row the table held keeps its value in every column the table had
RowsKept ==
    \A k \in DOMAIN sop.before.cells :
        /\ k \in DOMAIN schema.cells
        /\ \A c \in DOMAIN sop.before.columns : schema.cells[k][c] = sop.before.cells[k][c]

\* C11: schema widening is additive-only. Over create_table, add_column and
\* upsert (create_table, insert_records) calls the columns of a table only grow: every column stays,
\* under its name and with its type. Ensuring an existing table with exactly
\* one field it does not have adds exactly one column (that field, with the
\* type asked for, NULL in the rows), and the rows keep their values in the
\* columns the table had.
C11_WideningIsAdditive ==
    (sop.op # "none" /\ sop.before.exists) =>
        /\ schema.exists
        /\ \A c \in DOMAIN sop.before.columns :
              c \in DOMAIN schema.columns /\ schema.columns[c] = sop.before.columns[c]
        /\ (sop.op = "create_table" /\ Cardinality(DOMAIN sop.missing) = 1) =>
              /\ DOMAIN schema.columns = DOMAIN sop.before.columns \cup DOMAIN sop.missing
              /\ \A name \in DOMAIN sop.missing :
                    /\ schema.columns[name] = sop.missing[name]
                    /\ \A k \in DOMAIN schema.cells : schema.cells[k][name] = "null"
              /\ RowsKept
              /\ DOMAIN schema.cells = DOMAIN sop.before.cells

\* C11 witness: a table with a row and two columns was ensured with one field
\* it did not have
C11_Witness ==
    /\ sop.op = "create_table" /\ sop.before.exists
    /\ Cardinality(DOMAIN sop.missing) = 1
    /\ sop.before.cells # <<>>
    /\ Cardinality(DOMAIN sop.before.columns) = 1
    /\ Cardinality(DOMAIN schema.columns) = 2

----------------------------------------------------------------------------
\* utils.determine_field_types and utils.resolve_field_types
\*
\* A value is a Python object: None, a bool, an int, a float, a str (its
\* characters) or any other object.

MaxLen == 3        \* longest string drawn character by character

Digits == {"0", "1", "2", "3", "5"}
Alphabet == {"1", ".", "e"}

\* The strings the model names, character by character
Chars ==
    [v \in {"", "1", "2", "3", "1.0", "2.5", "a", "abc", "true", "True", "1E1"} |->
        CASE v = "" -> <<>>
          [] v = "1.0" -> <<"1", ".", "0">>
          [] v = "2.5" -> <<"2", ".", "5">>
          [] v = "abc" -> <<"a", "b", "c">>
          [] v = "true" -> <<"t", "r", "u", "e">>
          [] v = "True" -> <<"T", "r", "u", "e">>
          [] v = "1E1" -> <<"1", "E", "1">>
          [] OTHER -> <<v>>]

None == [kind |-> "None", text |-> <<>>]
Str(text) == [kind |-> "str", text |-> text]

Values ==
    {[kind |-> k, text |-> <<>>] : k \in {"None", "bool", "int", "float", "object"}}
        \cup {Str(t) : t \in UNION {[1..n -> Alphabet] : n \in 0..MaxLen}}
        \cup {Str(Chars[v]) : v \in DOMAIN Chars}

\* str.lower()
LowerText(text) ==
    [i \in DOMAIN text |-> CASE text[i] = "T" -> "t" [] text[i] = "E" -> "e" [] OTHER -> text[i]]

\* the text after an optional sign
Unsigned(text) == IF text # <<>> /\ text[1] \in {"+", "-"} THEN Tail(text) ELSE text

IsDigits(text) == text # <<>> /\ \A i \in DOMAIN text : text[i] \in Digits

\* int(s) succeeds
IsIntStr(s) == IsDigits(Unsigned(s))

\* float(s) succeeds: digits with at most one point, then an optional exponent
FloatParses(s) ==
    LET u == Unsigned(s)
        es == {i \in DOMAIN u : u[i] \in {"e", "E"}}
        IsMantissa(m) ==
            /\ \E i \in DOMAIN m : m[i] \in Digits
            /\ \A i \in DOMAIN m : m[i] \in Digits \cup {"."}
            /\ \A i, j \in DOMAIN m : (m[i] = "." /\ m[j] = ".") => i = j
    IN  IF es = {} THEN IsMantissa(u)
        ELSE /\ Cardinality(es) = 1
             /\ LET i == CHOOSE x \in es : TRUE
                IN  /\ IsMantissa(SubSeq(u, 1, i - 1))
                    /\ IsDigits(Unsigned(SubSeq(u, i + 1, Len(u))))

IsFloatStr(s) == FloatParses(s) /\ \E i \in DOMAIN s : LowerText(s)[i] \in {".", "e"}

\* The type determine_field_types adds for one value
TypeOf(value) ==
    IF value.kind = "None" \/ value = Str(<<>>) THEN "TEXT"
    ELSE IF value.kind \in {"bool", "int"} THEN "INTEGER"
    ELSE IF value.kind = "float" THEN "REAL"
    ELSE IF value.kind = "str"
         THEN IF LowerText(value.text) \in {Chars["true"], <<"f", "a", "l", "s", "e">>} THEN "INTEGER"
              ELSE IF IsIntStr(value.text) THEN "INTEGER"
              ELSE IF IsFloatStr(value.text) THEN "REAL"
              ELSE "TEXT"
    ELSE "TEXT"

\* A resolution that prefers the narrowest type
ResolveIntegerFirst(types) ==
    IF "INTEGER" \in types THEN "INTEGER" ELSE IF "REAL" \in types THEN "REAL" ELSE "TEXT"

\* resolve_field_types for one field: TEXT > REAL > INTEGER
Resolve(types) ==
    IF "TEXT" \in types THEN "TEXT"
    ELSE IF "REAL" \in types THEN "REAL"
    ELSE IF "INTEGER" \in types THEN "INTEGER"
    ELSE "TEXT"

----------------------------------------------------------------------------
\* RecordSyncHandler: the fields of one entity with line items over its sync
\* runs.  A batch holds one record; the modification time of the records is
\* modelled by the sync specifications and left out here, and so are the rows
\* of the line item table.

MaxFieldRuns == 2    \* sync runs of the entity per behaviour

Table == "invoices"
LineTable == "invoices_line_items"
HeaderNames == <<"TxnID", "Memo", "Other">>
LineNames == {"Desc"}
RunValues == {"1", "a"}

\* A header record: the key field, then at most one of the other fields
Opt(name) == {<<>>} \cup {<< <<name, v>> >> : v \in RunValues}
RunRecords == {<< <<KeyField, "a">> >> \o m : m \in Opt("Memo") \cup Opt("Other")}

NoTypes == [f \in {HeaderNames[i] : i \in DOMAIN HeaderNames} |-> {}]

\* determine_field_types([record], current_types)
DetermineFieldTypes(record, current_types) ==
    [f \in DOMAIN current_types |->
        IF f \in NamesOf(record)
        THEN current_types[f] \cup
                 {TypeOf(IF Get(record, f) = "null" THEN None ELSE Str(Chars[Get(record, f)]))}
        ELSE current_types[f]]

\* resolve_field_types(field_names, field_types), as a fields_dict
ResolveFieldTypes(field_names, field_types) ==
    LET q == SelectSeq(HeaderNames, LAMBDA f : f \in field_names)
    IN  [i \in DOMAIN q |-> <<q[i], Resolve(field_types[q[i]])>>]

\* get_known_custom_fields(table_name)
GetKnownCustomFields(reg, table_name, field_level) ==
    {k[2] : k \in {x \in DOMAIN reg : x[1] = table_name /\ reg[x].field_level = field_level}}

\* A tracking that keeps only the fields it is given
TrackedOnly(reg, table_name, fields, field_level, current_time) ==
    [k \in {<<table_name, f>> : f \in fields} |->
        [field_level |-> field_level, last_seen |-> current_time]]

\* INSERT ... ON CONFLICT(table_name, field_name) DO UPDATE SET last_seen
Tracked(reg, table_name, fields, field_level, current_time) ==
    [k \in DOMAIN reg \cup {<<table_name, f>> : f \in fields} |->
        IF k \in DOMAIN reg
        THEN IF k[1] = table_name /\ k[2] \in fields
             THEN [reg[k] EXCEPT !.last_seen = current_time]
             ELSE reg[k]
        ELSE [field_level |-> field_level, last_seen |-> current_time]]

\* track_custom_fields(table_name, header_fields, line_fields)
TrackCustomFields(reg, header_fields, line_fields, current_time) ==
    LET header == Tracked(reg, Table, header_fields, "HEADER", current_time)
    IN  IF line_fields = {} THEN header
        ELSE Tracked(header, LineTable, line_fields, "LINE", current_time)

\* line_seen: the line item fields extraction has found in the run
IdleFieldRun ==
    [active |-> FALSE, runs |-> 0, seeded |-> FALSE,
     header_fields |-> {}, line_fields |-> {}, header_types |-> NoTypes,
     all_header_data |-> <<>>, all_line_keys |-> {}, line_seen |-> {}]

\* _save_data of the accumulated data: the fields in force, the table and the
\* registry after it
SaveData(fr, tbl, reg) ==
    LET header_fields == IF fr.header_fields = {}
                         THEN UNION {NamesOf(fr.all_header_data[i]) : i \in DOMAIN fr.all_header_data}
                         ELSE fr.header_fields
        line_fields == IF fr.all_line_keys # {} /\ fr.line_fields = {}
                       THEN fr.all_line_keys
                       ELSE fr.line_fields
        resolved_header_types == ResolveFieldTypes(header_fields, fr.header_types)
    IN  [header_fields |-> header_fields,
         line_fields |-> line_fields,
         tbl |-> SaveRecords(tbl, resolved_header_types, fr.all_header_data, KeyField, TRUE).tbl,
         reg |-> TrackCustomFields(reg, header_fields, line_fields, fr.runs)]

\* The run after _save_accumulated_data and the clearing of the accumulated data
Flushed(fr, saved) ==
    [fr EXCEPT !.header_fields = saved.header_fields,
               !.line_fields = saved.line_fields,
               !.all_header_data = <<>>,
               !.all_line_keys = {}]

InitFields ==
    /\ IdleCore
    /\ schema = NoTable /\ sop = NoSchemaOp /\ registry = NoRegistry
    /\ frun = IdleFieldRun
    /\ lineRows = {} /\ lcall = NoLineCall /\ observed = <<>> /\ seen = NoSeen

\* _sync_with_iterator up to the loop: the known fields seed the run
StartFieldRun ==
    /\ ~frun.active
    /\ frun.runs < MaxFieldRuns
    /\ frun' = [IdleFieldRun EXCEPT
                   !.active = TRUE,
                   !.runs = frun.runs + 1,
                   !.seeded = registry # NoRegistry,
                   !.header_fields = GetKnownCustomFields(registry, Table, "HEADER"),
                   !.line_fields = GetKnownCustomFields(registry, LineTable, "LINE")]
    /\ UNCHANGED <<coreVars, schema, sop, registry, lineVars, typeVars>>

\* One turn of the loop: _extract_batch_data, then the intermediate save
ExtractBatch ==
    /\ frun.active
    /\ \E record \in RunRecords, line_keys \in SUBSET LineNames :
         \E extracted \in
                {[frun EXCEPT
                     !.header_types = DetermineFieldTypes(record, @),
                     !.all_header_data = Append(@, record),
                     !.all_line_keys = IF line_keys = {} THEN @ ELSE @ \cup line_keys \cup {KeyField},
                     !.line_seen = @ \cup line_keys]} :
             IF Len(extracted.all_header_data) >= FlushThreshold
             THEN \E saved \in {SaveData(extracted, schema, registry)} :
                      /\ frun' = Flushed(extracted, saved)
                      /\ schema' = saved.tbl
                      /\ registry' = saved.reg
             ELSE /\ frun' = extracted
                  /\ UNCHANGED <<schema, registry>>
    /\ UNCHANGED <<coreVars, sop, lineVars, typeVars>>

\* The end of the loop: "Save any remaining data"
EndFieldRun ==
    /\ frun.active
    /\ IF frun.all_header_data # <<>>
       THEN \E saved \in {SaveData(frun, schema, registry)} :
                /\ frun' = [Flushed(frun, saved) EXCEPT !.active = FALSE]
                /\ schema' = saved.tbl
                /\ registry' = saved.reg
       ELSE /\ frun' = [frun EXCEPT !.active = FALSE]
            /\ UNCHANGED <<schema, registry>>
    /\ UNCHANGED <<coreVars, sop, lineVars, typeVars>>

NextFields == StartFieldRun \/ ExtractBatch \/ EndFieldRun

SpecFields == InitFields /\ [][NextFields]_vars

\* C12: when a flush of a sync run adds a column to the existing entity table,
\* the column has the type resolved from the values observed for the field in
\* the run, also in a run seeded from the registry or after an earlier flush.
C12_DiscoveredColumnHasResolvedType ==
    [][schema.exists =>
          \A c \in DOMAIN schema'.columns \ DOMAIN schema.columns :
              schema'.columns[c] = Resolve(frun'.header_types[c])]_vars

\* C13: an entry of the registry stays in the registry, at its level
C13_RegistryGrowsMonotonically ==
    [][\A k \in DOMAIN registry :
           k \in DOMAIN registry' /\ registry'[k].field_level = registry[k].field_level]_vars

\* C13 witness: a second run, seeded from the registry, has tracked fields at
\* both levels again
C13_Witness ==
    /\ ~frun.active /\ frun.runs = 2 /\ frun.seeded
    /\ \E k \in DOMAIN registry : registry[k].field_level = "HEADER" /\ registry[k].last_seen = 2
    /\ \E k \in DOMAIN registry : registry[k].field_level = "LINE" /\ registry[k].last_seen = 2

\* C14: after a sync run, every field extraction found in it is in the registry
C14_DiscoveredFieldsAreTracked ==
    (~frun.active /\ frun.runs > 0) =>
        /\ \A f \in {x \in DOMAIN frun.header_types : frun.header_types[x] # {}} :
              <<Table, f>> \in DOMAIN registry /\ registry[<<Table, f>>].field_level = "HEADER"
        /\ \A f \in frun.line_seen :
              <<LineTable, f>> \in DOMAIN registry /\ registry[<<LineTable, f>>].field_level = "LINE"

----------------------------------------------------------------------------
\* The type specification: the values of one field are observed one after the
\* other, in any order, and the field's type is resolved

InitTypes ==
    /\ IdleCore
    /\ schema = NoTable /\ sop = NoSchemaOp /\ registry = NoRegistry /\ frun = NoFieldRun
    /\ lineRows = {} /\ lcall = NoLineCall
    /\ observed = <<>> /\ seen = NoSeen

\* determine_field_types for one more value of the field
ObserveValue ==
    /\ \E value \in Values :
         /\ observed' = <<value>>
         /\ seen' = [types |-> seen.types \cup {TypeOf(value)}, resolved |-> "none"]
    /\ UNCHANGED <<coreVars, schemaVars, lineVars>>

\* resolve_field_types
ResolveField ==
    /\ seen.resolved = "none"
    /\ seen' = [seen EXCEPT !.resolved = Resolve(seen.types)]
    /\ UNCHANGED <<coreVars, schemaVars, lineVars, observed>>

NextTypes == ObserveValue \/ ResolveField

SpecTypes == InitTypes /\ [][NextTypes]_vars

\* The type a value infers, in the words of the claim
Inferred(value) ==
    LET numeric == value.kind = "str" /\ FloatParses(value.text)
        integer == value.kind = "str" /\ IsIntStr(value.text)
        boolean == value.kind = "str"
                       /\ LowerText(value.text) \in {Chars["true"], <<"f", "a", "l", "s", "e">>}
    IN  IF value.kind \in {"None", "object"} THEN "TEXT"
        ELSE IF value.kind = "str" /\ (value.text = <<>> \/ ~(numeric \/ integer \/ boolean)) THEN "TEXT"
        ELSE IF value.kind = "float" \/ (numeric /\ ~integer /\ ~boolean) THEN "REAL"
        ELSE "INTEGER"

\* The type resolved for a list of value strings
ResolvedOf(strings) ==
    Resolve({TypeOf(Str(Chars[strings[i]])) : i \in DOMAIN strings})

\* C15: every observed value adds the type it infers; the resolved type is TEXT
\* if a value inferred TEXT or none was observed, else REAL if a value
\* inferred REAL, else INTEGER, whatever the order of the values; the three
\* examples resolve as stated.
C15_TypeResolution ==
    /\ [][(observed' # observed \/ seen'.types # seen.types) =>
              seen'.types = seen.types \cup {Inferred(observed'[1])}]_vars
    /\ [](seen.resolved # "none" =>
              seen.resolved = IF "TEXT" \in seen.types \/ seen.types = {} THEN "TEXT"
                              ELSE IF "REAL" \in seen.types THEN "REAL"
                              ELSE "INTEGER")
    /\ [](/\ ResolvedOf(<<"1", "2.5", "abc">>) = "TEXT"
          /\ ResolvedOf(<<"1", "2", "3">>) = "INTEGER"
          /\ ResolvedOf(<<"1.0", "2.5">>) = "REAL")

\* C15 witness: integers and then a string with an exponent resolve to REAL
C15_Witness ==
    /\ observed = <<Str(<<"1", "e", "1">>)>>
    /\ seen.types = {"INTEGER", "REAL"}
    /\ seen.resolved = "REAL"

----------------------------------------------------------------------------
\* RecordSyncHandler._save_data, line item part: the line items of the headers
\* of one flush replace the rows stored for these headers.  A row is
\* [id, parent, data]: the value of the table's primary key, the header's key
\* and the flush that wrote it.  TxnLineIDs are distinct within one flush.

MaxSaves == 3            \* flushes per behaviour
ParentBatchSize == 1     \* parent_batch_size (50), scaled
Parents == <<"a", "b">>
LineIds == {"L1", "L2", "L3"}

\* f"{parent_id}_{idx}"
LineItemId(parent_id, idx) == parent_id \o "_" \o ToString(idx)

\* The line items extracted for the headers: ids[l] is the header of the line
\* with TxnLineID l.  Without TxnLineID the lines of a header are numbered.
LineItems(ids, with_ids, data) ==
    UNION {LET mine == {l \in DOMAIN ids : ids[l] = h}
               idx == CHOOSE f \in [mine -> 0..(Cardinality(mine) - 1)] :
                          \A x, y \in mine : f[x] = f[y] => x = y
           IN  {[id |-> IF with_ids THEN l ELSE LineItemId(h, idx[l]),
                 parent |-> h, data |-> data] : l \in mine}
          : h \in {ids[l] : l \in DOMAIN ids} \ {"none"}}

\* A delete that removes nothing
DeleteNothing(table, parent_ids) == table

\* delete_records(line_table, key_field, parent_id) for each parent of the
\* batch, each committed
DeleteRecords(table, parent_ids) == {r \in table : r.parent \notin parent_ids}

\* INSERT OR REPLACE of the batch, committed
InsertRecordsBatch(table, records) ==
    {r \in table : r.id \notin {x.id : x \in records}} \cup records

\* The batches of parents from the i-th on; the bulk insert of the batch that
\* holds the header failing raises after its ROLLBACK
RECURSIVE ReplaceLineItems(_, _, _, _, _)
ReplaceLineItems(table, parent_ids, i, line_data, failing) ==
    IF i > Len(parent_ids) THEN table
    ELSE LET batch_parent_ids == {parent_ids[j] : j \in i..Min({i + ParentBatchSize - 1, Len(parent_ids)})}
             batch_line_items == {r \in line_data : r.parent \in batch_parent_ids}
             deleted == DeleteRecords(table, batch_parent_ids)
         IN  IF failing \in batch_parent_ids THEN deleted
             ELSE ReplaceLineItems(InsertRecordsBatch(deleted, batch_line_items),
                                   parent_ids, i + ParentBatchSize, line_data, failing)

\* _save_data: nothing is done without line data; only the headers that have
\* line items are replaced
SaveLineData(table, line_data, failing) ==
    IF line_data = {} THEN table
    ELSE ReplaceLineItems(table,
                          SelectSeq(Parents, LAMBDA h : \E r \in line_data : r.parent = h),
                          1, line_data, failing)

InitLines ==
    /\ IdleCore
    /\ schema = NoTable /\ sop = NoSchemaOp /\ registry = NoRegistry /\ frun = NoFieldRun
    /\ observed = <<>> /\ seen = NoSeen
    /\ lineRows = {}
    /\ \E with_ids \in BOOLEAN :
         lcall = [done |-> FALSE, n |-> 0, with_ids |-> with_ids, before |-> {},
                  headers |-> {}, line_data |-> {}, failing |-> "none"]

\* One flush: the headers re-synced, their line items, and the header, if any,
\* whose bulk insert fails
SaveLines ==
    /\ lcall.n < MaxSaves
    /\ \E headers \in SUBSET {Parents[i] : i \in DOMAIN Parents} \ {{}} :
         \E ids \in [LineIds -> headers \cup {"none"}] :
           \E line_data \in {LineItems(ids, lcall.with_ids, lcall.n + 1)} :
             \E failing \in {"none"} \cup {r.parent : r \in line_data} :
               /\ lineRows' = SaveLineData(lineRows, line_data, failing)
               /\ lcall' = [done |-> TRUE, n |-> lcall.n + 1, with_ids |-> lcall.with_ids,
                            before |-> lineRows,
                            headers |-> headers, line_data |-> line_data, failing |-> failing]
    /\ UNCHANGED <<coreVars, schemaVars, typeVars>>

NextLines == SaveLines

SpecLines == InitLines /\ [][NextLines]_vars

\* The rows stored for a header
RowsOf(table, h) == {r \in table : r.parent = h}

\* C16: after a flush that re-synced a header with at least one line item, the
\* rows stored for the header are exactly the line items extracted for it
C16_ReplaceLeavesExactlyNewRows ==
    (lcall.done /\ lcall.failing = "none") =>
        \A h \in lcall.headers :
            RowsOf(lcall.line_data, h) # {} => RowsOf(lineRows, h) = RowsOf(lcall.line_data, h)

\* C16 witness: a header that held three rows was re-synced with two line items
C16_Witness ==
    /\ lcall.done /\ lcall.failing = "none"
    /\ \E h \in lcall.headers :
         /\ Cardinality(RowsOf(lcall.before, h)) = 3
         /\ Cardinality(RowsOf(lcall.line_data, h)) = 2
         /\ Cardinality(RowsOf(lineRows, h)) = 2

\* C17: after a flush that re-synced a header without line items, no rows are
\* stored for the header
C17_ReplaceWithNoLinesLeavesNoRows ==
    (lcall.done /\ lcall.failing = "none") =>
        \A h \in lcall.headers :
            RowsOf(lcall.line_data, h) = {} => RowsOf(lineRows, h) = {}

\* C18: when the bulk insert for a header fails, the rows stored for the header
\* before the flush are still stored
C18_FailedReplaceKeepsOldRows ==
    lcall.done =>
        \A h \in lcall.headers :
            lcall.failing = h => RowsOf(lcall.before, h) \subseteq lineRows

----------------------------------------------------------------------------
\* Busy answers

\* C19: a busy answer in an iterator sync leaves the loop running with the
\* request it built before (the same continuation token, or again a start
\* request with the same date filter), extracts nothing, leaves the accumulated
\* records and the running maximum as they were and writes no outcome.
C19_BusyRetriesSamePage ==
    [][run'.busy = run.busy + 1 =>
          /\ pc' = "loop"
          /\ run'.failed = Request(run)
          /\ Request(run') = Request(run)
          /\ run'.extracted = run.extracted
          /\ run'.acc = run.acc
          /\ run'.max_time_modified = run.max_time_modified
          /\ sync_log' = sync_log
          /\ rows' = rows]_vars

\* C19 witness: a continuation request was answered busy while records were
\* accumulated, and the loop goes on
C19_Witness ==
    /\ pc = "loop" /\ run.busy = 1
    /\ run.failed.iterator = "Continue"
    /\ Request(run) = run.failed
    /\ run.acc # {}

\* C20: a busy answer does not end the run of an entity
C20_BusyNeverEndsRun == run.ended # "busy"

----------------------------------------------------------------------------
(* main() and sync_tables: connect, the loop over the selected entities,   *)
(* the orphan repair after it, disconnect                                  *)

MaxRequests == 2   \* requests per entity and per repair

EntityNamed(n) == CHOOSE e \in Entities : e.name = n
TABLE_CONFIGS ==
    <<EntityNamed("invoices"), EntityNamed("accounts"), EntityNamed("qb_txn_deleted_data")>>

\* --tables / --table: the names asked for ({}: none given, all tables)
TableArgs == SUBSET {"invoices", "accounts", "qb_txn_deleted_data", "unknown"}

InTables(tables) == [config \in Entities |-> config.name \in tables]
\* tables_to_sync: the configured order, filtered by the names asked for
TablesToSync(tables) ==
    IF tables # {}
    THEN SelectSeq(TABLE_CONFIGS, LAMBDA config : InTables(tables)[config])
    ELSE TABLE_CONFIGS

\* for ... in tables_to_sync: the loop goes on with the next table after a
\* table whose sync returned or raised an Exception
NextTableAborting(i) == Len(TABLE_CONFIGS) + 1
NextTable(i) == i + 1

InitMain ==
    /\ rows = <<>> /\ tableExists = FALSE /\ modAffinity = "TEXT" /\ call = NoCall
    /\ sync_log = NoLog /\ now = 0 /\ outcome = NoOutcome /\ steps = 0
    /\ IdleSync /\ IdleFieldVars /\ rep = NoRepair /\ IdleAux
    /\ \E tables \in TableArgs :
         main = [pc |-> "connect", tables |-> tables, i |-> 1, reqs |-> 0,
                 attempted |-> <<>>, requested |-> {}, with_lines |-> FALSE,
                 session_manager |-> FALSE, is_connected |-> FALSE, is_logged_in |-> FALSE,
                 session |-> "none", connection |-> "none", connected |-> FALSE,
                 invalid |-> 0, how |-> "none"]

allButMain == <<storeVars, outcome, steps, now, syncVars, schemaVars, lineVars, typeVars, qry, mgr>>
restOfMain == <<allButMain, rep>>

Current == TablesToSync(main.tables)[main.i]

\* main: "Update sync status for all tables" after a failed connect
RECURSIVE NoConnection(_, _)
NoConnection(log, k) ==
    IF k > Len(TABLE_CONFIGS) THEN log
    ELSE NoConnection(UpdateSyncTimestamp(log, TABLE_CONFIGS[k], "NO_CONNECTION",
                                          "Could not connect to QuickBooks", NoTime,
                                          tableExists, rows, now), k + 1)

\* qb.connect(): on success both flags are set; on failure main records
\* NO_CONNECTION for every configured table and returns
Connect ==
    /\ main.pc = "connect"
    /\ \E ok \in BOOLEAN :
         IF ok
         THEN /\ main' = [main EXCEPT !.pc = "loop", !.session_manager = TRUE,
                                      !.is_connected = TRUE, !.is_logged_in = TRUE,
                                      !.session = "begun", !.connection = "open",
                                      !.connected = TRUE]
              /\ UNCHANGED sync_log
         ELSE /\ main' = [main EXCEPT !.pc = "done", !.how = "no_connection"]
              /\ sync_log' = NoConnection(sync_log, 1)
    /\ UNCHANGED restOfMain

\* The loop of sync_tables calls sync_table for the next table
SyncTable ==
    /\ main.pc = "loop" /\ main.i <= Len(TablesToSync(main.tables))
    /\ main' = [main EXCEPT !.pc = "table", !.reqs = 0,
                            !.attempted = Append(@, Current.name)]
    /\ UNCHANGED <<sync_log, restOfMain>>

\* sync_table returned, or raised an Exception that sync_tables logs
\* (requested: whether a request was issued; invalid: whether the session was
\* reported invalid)
Returned(log, normally, requested, invalid) ==
    /\ sync_log' = log
    /\ main' = [main EXCEPT !.pc = "loop", !.i = NextTable(@),
                            !.requested = IF requested THEN @ \cup {Current.name} ELSE @,
                            !.with_lines = @ \/ (normally /\ Current.name = "invoices"),
                            !.invalid = IF invalid /\ @ = 0 THEN main.i ELSE @]

\* do_requests answered with a page that is not the last one, or busy inside
\* the iterator loop: sync_table issues another request
RequestAgain ==
    /\ main.pc = "table" /\ main.is_logged_in /\ Current.iterator
    /\ main.reqs < MaxRequests
    /\ main' = [main EXCEPT !.reqs = @ + 1, !.requested = @ \cup {Current.name}]
    /\ UNCHANGED <<sync_log, restOfMain>>

\* The sync of the table completed: status SUCCESS
RequestCompletes ==
    /\ main.pc = "table" /\ main.is_logged_in
    /\ Returned(UpdateSyncTimestamp(sync_log, Current, SUCCESS, "none", NoTime,
                                    tableExists, rows, now), TRUE, TRUE, FALSE)
    /\ UNCHANGED restOfMain

\* An error status: _handle_qb_error; the iterator loop breaks and the code
\* after it records SUCCESS
RequestErrorStatus ==
    /\ main.pc = "table" /\ main.is_logged_in
    /\ \E status_code \in ErrorCodes :
         \E failed \in {UpdateSyncTimestamp(sync_log, Current, QbErrorStatus(status_code),
                                            QbErrorMessage(status_code), NoTime,
                                            tableExists, rows, now)} :
           Returned(IF Current.iterator
                    THEN UpdateSyncTimestamp(failed, Current, SUCCESS, "none", NoTime,
                                             tableExists, rows, now)
                    ELSE failed, TRUE, TRUE, FALSE)
    /\ UNCHANGED restOfMain

\* do_requests raised a com_error that ends the sync of the table:
\* _handle_com_error records BUSY or ERROR, and re-raises an invalid session,
\* which the except Exception of sync_tables logs before the next table
RequestRaises ==
    /\ main.pc = "table" /\ main.is_logged_in
    /\ \E kind \in {"busy", "session_invalid", "com_error"} :
         /\ kind = "busy" => ~Current.iterator
         /\ IF kind = "session_invalid"
            THEN Returned(sync_log, FALSE, TRUE, TRUE)
            ELSE Returned(UpdateSyncTimestamp(sync_log, Current,
                                              IF kind = "busy" THEN "BUSY" ELSE "ERROR",
                                              IF kind = "busy" THEN "QuickBooks busy"
                                              ELSE "com_error",
                                              NoTime, tableExists, rows, now),
                          TRUE, TRUE, FALSE)
    /\ UNCHANGED restOfMain

\* Another exception inside sync_table: status ERROR, sync_table returns
SyncException ==
    /\ main.pc = "table"
    /\ Returned(UpdateSyncTimestamp(sync_log, Current, "ERROR", "exception", NoTime,
                                    tableExists, rows, now), TRUE, FALSE, FALSE)
    /\ UNCHANGED restOfMain

\* KeyboardInterrupt inside sync_table or the repair: no except clause of
\* sync_table or sync_tables catches it, the finally of main disconnects
Interrupt ==
    /\ main.pc \in {"table", "repair"}
    /\ main' = [main EXCEPT !.pc = "disconnect", !.how = "interrupted"]
    /\ UNCHANGED <<sync_log, restOfMain>>

\* The loop is over (or no valid table was found): the orphan check follows
\* when a table with line items was synced
LoopEnd ==
    /\ main.pc = "loop" /\ main.i > Len(TablesToSync(main.tables))
    /\ main' = [main EXCEPT !.pc = IF main.with_lines THEN "repair" ELSE "disconnect",
                            !.reqs = 0,
                            !.how = IF main.with_lines THEN @ ELSE "completed"]
    /\ UNCHANGED <<sync_log, restOfMain>>

\* fix_orphaned_records submits an edit request
RepairRequest ==
    /\ main.pc = "repair" /\ main.is_logged_in /\ main.reqs < MaxRequests
    /\ main' = [main EXCEPT !.reqs = @ + 1, !.requested = @ \cup {"repair"}]
    /\ UNCHANGED <<sync_log, restOfMain>>

\* The repair is over, or raised an Exception that sync_tables logs
RepairEnd ==
    /\ main.pc = "repair"
    /\ \E how \in {"completed", "exception"} :
         main' = [main EXCEPT !.pc = "disconnect", !.how = how]
    /\ UNCHANGED <<sync_log, restOfMain>>

\* qb.disconnect(): EndSession, then CloseConnection, in one try; an exception
\* of either call is logged and the rest of the try is skipped
Disconnect ==
    /\ main.pc = "disconnect"
    /\ \E raising \in {"none", "EndSession", "CloseConnection"} :
         main' = [main EXCEPT
                    !.pc = "done",
                    !.session_manager = FALSE,
                    !.is_logged_in = IF main.session_manager /\ raising # "EndSession"
                                     THEN FALSE ELSE @,
                    !.session = IF main.session_manager /\ main.is_logged_in
                                   /\ raising # "EndSession"
                                THEN "ended" ELSE @,
                    !.is_connected = IF main.session_manager /\ raising = "none"
                                     THEN FALSE ELSE @,
                    !.connection = IF main.session_manager /\ main.is_connected
                                      /\ raising = "none"
                                   THEN "closed" ELSE @]
    /\ UNCHANGED <<sync_log, restOfMain>>

NextMain ==
    \/ Connect \/ SyncTable \/ RequestAgain \/ RequestCompletes \/ RequestErrorStatus
    \/ RequestRaises \/ SyncException \/ Interrupt \/ LoopEnd \/ RepairRequest
    \/ RepairEnd \/ Disconnect

SpecMain == InitMain /\ [][NextMain]_vars

----------------------------------------------------------------------------
\* The run over the selected entities

TableNames(configs) == [k \in 1..Len(configs) |-> configs[k].name]

\* C22: in a run over the selected entities the entities attempted so far are
\* the first ones of the selection in configuration order, each once, and a run
\* that ends without an interrupt has attempted every selected entity, whatever
\* the outcome of the entities before it
C22_EveryEntityAttemptedOnceInOrder ==
    LET selected == TableNames(TablesToSync(main.tables))
    IN /\ Len(main.attempted) <= Len(selected)
       /\ main.attempted = SubSeq(selected, 1, Len(main.attempted))
       /\ main.pc = "done" /\ main.connected /\ main.how # "interrupted"
            => main.attempted = selected

\* All three entities were attempted in a run whose first entity met an
\* invalid session and whose second one ended busy
C22_Witness ==
    /\ main.pc = "done" /\ main.tables = {} /\ main.invalid = 1
    /\ main.attempted = <<"invoices", "accounts", "qb_txn_deleted_data">>
    /\ sync_log["accounts"].last_status = "BUSY"

\* C23: after a request failed on an invalid session no request is issued for
\* a later entity of the run, and every later entity is recorded NO_CONNECTION
C23_InvalidSessionAbortsRun ==
    main.pc = "done" /\ main.invalid # 0 =>
        \A k \in (main.invalid + 1)..Len(TablesToSync(main.tables)) :
            LET name == TablesToSync(main.tables)[k].name
            IN /\ name \notin main.requested
               /\ name \in DOMAIN sync_log
               /\ sync_log[name].last_status = "NO_CONNECTION"

\* C24: a request is issued only between a successful connect and the
\* disconnect, and a run that had connected ends with the session ended and
\* the connection closed
C24_ConnectionBracketsRun ==
    [][/\ main'.requested # main.requested \/ main'.reqs > main.reqs
            => main.connected /\ main.session = "begun" /\ main.connection = "open"
       /\ main'.pc = "done" /\ main'.connected
            => main'.session = "ended" /\ main'.connection = "closed"]_vars

----------------------------------------------------------------------------
\* Interruption and the sync-state record of an attempt

\* C25: when an iterator sync is interrupted by the operator, the records
\* accumulated and not yet flushed are stored, and the watermark of the
\* entity is the one before the run
C25_InterruptFlushesAccumulated ==
    [][pc = "loop" /\ run'.ended = "interrupted" =>
         /\ run.acc \subseteq DOMAIN rows'
         /\ Watermark(sync_log', entity) = run.before]_vars

\* C26: an attempt that ended without an interrupt has left a sync-state row
\* of the entity whose status and message are those of the attempt's outcome
C26_AttemptLeavesItsOutcome ==
    pc = "idle" /\ run.ended \notin {"none", "interrupted"} =>
        /\ entity.name \in DOMAIN sync_log
        /\ LET row == sync_log[entity.name]
           IN /\ run.ended \in {"complete", "no_records"} => row.last_status = SUCCESS
              /\ run.ended = "qb_error" =>
                    /\ row.last_status = run.errStatus
                    /\ row.last_error_message = run.errMessage
              /\ run.ended \in {"session_invalid", "com_error", "exception"} =>
                    row.last_status \in FailureStatuses

----------------------------------------------------------------------------
(* Orphan repair: fix_orphaned_records and _touch_modify_record.  The store  *)
(* side of the fix attempts (get_fix_attempt_status, record_fix_attempt,     *)
(* get_failed_fix_attempts) is declared in DatabaseInterface only.           *)

MaxPasses == 4          \* repair passes per behaviour
max_fix_attempts == 3   \* self.max_fix_attempts

Orphans == {"H1", "H2"}         \* TxnIDs detect_orphaned_records may return
DetectedEditSequence == 1       \* record['EditSequence'] of a detected orphan
EditSequences == {2, 3}         \* EditSequence values a modify response carries
NoEditSequence == 0             \* get_com_value found none
Memos == {"", "memo"}

\* get_fix_attempt_status returns None
NoAttempt == [AttemptCount |-> 0, Status |-> "none"]
GetFixAttemptStatus(tracker, txn_id) == tracker[txn_id]

\* record_fix_attempt: one more attempt, with its verdict
RecordFixAttempt(tracker, txn_id, success) ==
    [tracker EXCEPT ![txn_id] = [AttemptCount |-> @.AttemptCount + 1,
                                 Status |-> IF success THEN "FIXED" ELSE "FAILED"]]

\* get_failed_fix_attempts: "all records that failed after 3 attempts"
GetFailedFixAttempts(tracker) ==
    {txn_id \in DOMAIN tracker :
        tracker[txn_id].Status = "FAILED" /\ tracker[txn_id].AttemptCount >= max_fix_attempts}

\* A repair loop that never skips a record
SkipsNever(fix_status, force_retry) == FALSE

\* The check before an attempt: a record is skipped when it has a fix attempt
\* row, no retry is forced, the row is not FIXED and its count is at the maximum
Skips(fix_status, force_retry) ==
    /\ fix_status # NoAttempt /\ ~force_retry
    /\ fix_status.Status # "FIXED"
    /\ fix_status.AttemptCount >= max_fix_attempts

NoModify == [TxnID |-> "none", EditSequence |-> 0, Memo |-> <<>>]
FirstModify(t) ==
    [TxnID |-> t.txn_id, EditSequence |-> t.edit_sequence, Memo |-> <<t.current_memo, "TEMP">>]
\* A second modify that carries the EditSequence of the first one
SecondModifyStale(t) ==
    [TxnID |-> t.txn_id, EditSequence |-> t.edit_sequence, Memo |-> <<t.current_memo>>]
SecondModify(t) ==
    [TxnID |-> t.txn_id, EditSequence |-> t.new_edit_sequence, Memo |-> <<t.current_memo>>]

NoTouch == [txn_id |-> "none", edit_sequence |-> 0, current_memo |-> "",
            new_edit_sequence |-> NoEditSequence, first |-> NoModify, second |-> NoModify,
            first_status |-> "none", skipped |-> FALSE, before |-> NoAttempt]
NoStats == [detected |-> 0, attempted |-> 0, fixed |-> 0, failed |-> 0, skipped |-> 0]

InitRepair ==
    /\ rows = <<>> /\ tableExists = FALSE /\ modAffinity = "TEXT" /\ call = NoCall
    /\ sync_log = NoLog /\ now = 0 /\ outcome = NoOutcome /\ steps = 0
    /\ IdleSync /\ IdleFieldVars /\ main = NoMain /\ IdleAux
    /\ rep = [pc |-> "idle", passes |-> 0, forced |-> FALSE, force_retry |-> FALSE,
              todo |-> {}, stats |-> NoStats, tracker |-> [t \in Orphans |-> NoAttempt],
              touch |-> NoTouch, failed_records |-> {}]

restOfRepair == <<allButMain, sync_log, main>>

\* fix_orphaned_records up to its loop: detect_orphaned_records
StartPass ==
    /\ rep.pc = "idle" /\ rep.passes < MaxPasses
    /\ \E force_retry \in BOOLEAN, orphaned_records \in SUBSET Orphans :
         rep' = [rep EXCEPT !.pc = "pass", !.passes = @ + 1, !.force_retry = force_retry,
                            !.forced = @ \/ force_retry, !.todo = orphaned_records,
                            !.stats = [NoStats EXCEPT
                                         !.detected = Cardinality(orphaned_records)],
                            !.touch = NoTouch]
    /\ UNCHANGED restOfRepair

\* One turn of the loop, up to the skip or to the first modify request
ProcessRecord ==
    /\ rep.pc = "pass"
    /\ \E txn_id \in rep.todo, current_memo \in Memos :
       \E fix_status \in {GetFixAttemptStatus(rep.tracker, txn_id)} :
         IF Skips(fix_status, rep.force_retry)
         THEN rep' = [rep EXCEPT !.todo = @ \ {txn_id}, !.stats.skipped = @ + 1,
                                 !.touch = [NoTouch EXCEPT !.txn_id = txn_id,
                                                           !.skipped = TRUE,
                                                           !.before = fix_status]]
         ELSE rep' = [rep EXCEPT !.pc = "first", !.stats.attempted = @ + 1,
                                 !.touch = [NoTouch EXCEPT
                                              !.txn_id = txn_id,
                                              !.edit_sequence = DetectedEditSequence,
                                              !.current_memo = current_memo,
                                              !.before = fix_status]]
    /\ UNCHANGED restOfRepair

\* A verdict that is recorded, and counted only when it is a success
AttemptedFailureUncounted(touch, success) ==
    rep' = [rep EXCEPT !.pc = "pass", !.touch = touch, !.todo = @ \ {touch.txn_id},
                       !.stats.fixed = IF success THEN @ + 1 ELSE @,
                       !.tracker = RecordFixAttempt(@, touch.txn_id, success)]

\* _touch_modify_record returned: the verdict is recorded and counted
Attempted(touch, success) ==
    rep' = [rep EXCEPT !.pc = "pass", !.touch = touch, !.todo = @ \ {touch.txn_id},
                       !.stats.fixed = IF success THEN @ + 1 ELSE @,
                       !.stats.failed = IF success THEN @ ELSE @ + 1,
                       !.tracker = RecordFixAttempt(@, touch.txn_id, success)]

\* The first modify is submitted and answered: with status 0 and a new
\* EditSequence, with status 0 and none, with an error status, or do_requests
\* raises (busy or another com_error)
FirstModifyAnswered ==
    /\ rep.pc = "first"
    /\ \E answer \in {"ok", "no_edit_sequence", "error", "raised"} :
       \E new_edit_sequence \in IF answer = "ok" THEN EditSequences ELSE {NoEditSequence} :
       \E touch \in {[rep.touch EXCEPT
                        !.first = FirstModify(rep.touch),
                        !.new_edit_sequence = new_edit_sequence,
                        !.first_status = IF answer = "no_edit_sequence" THEN "ok" ELSE answer]} :
         IF answer = "ok"
         THEN rep' = [rep EXCEPT !.pc = "second", !.touch = touch]
         ELSE Attempted(touch, FALSE)
    /\ UNCHANGED restOfRepair

\* The second modify is submitted and answered: True for status 0 and for an
\* error status, False when do_requests raises
SecondModifyAnswered ==
    /\ rep.pc = "second"
    /\ \E answer \in {"ok", "error", "raised"} :
         Attempted([rep.touch EXCEPT !.second = SecondModify(rep.touch)], answer # "raised")
    /\ UNCHANGED restOfRepair

\* The loop is over; fix_orphaned_records_all_tables lists the failed records
EndPass ==
    /\ rep.pc = "pass" /\ rep.todo = {}
    /\ rep' = [rep EXCEPT !.pc = "idle",
                          !.failed_records = GetFailedFixAttempts(rep.tracker)]
    /\ UNCHANGED restOfRepair

NextRepair ==
    StartPass \/ ProcessRecord \/ FirstModifyAnswered \/ SecondModifyAnswered \/ EndPass

SpecRepair == InitRepair /\ [][NextRepair]_vars

----------------------------------------------------------------------------
\* Orphan repair

\* C27: a record whose fix attempt row says FAILED with the maximum attempt
\* count is skipped by a pass without forced retry: no modify is submitted for
\* it, it is counted as skipped, and it is among the records that
\* get_failed_fix_attempts lists
C27_CappedRecordIsSkipped ==
    (/\ rep.touch.txn_id # "none" /\ ~rep.force_retry
     /\ rep.touch.before.Status = "FAILED"
     /\ rep.touch.before.AttemptCount >= max_fix_attempts)
    => /\ rep.touch.skipped /\ rep.touch.first = NoModify
       /\ rep.stats.skipped >= 1 /\ rep.stats.attempted + rep.stats.skipped <= Cardinality(Orphans)
       /\ rep.tracker[rep.touch.txn_id] = rep.touch.before
       /\ rep.touch.txn_id \in GetFailedFixAttempts(rep.tracker)
       /\ rep.pc = "idle" => rep.touch.txn_id \in rep.failed_records

\* A pass without forced retry skipped a record that had failed three times
\* and listed it
C27_Witness ==
    /\ rep.pc = "idle" /\ ~rep.force_retry /\ rep.touch.skipped
    /\ rep.touch.before = [AttemptCount |-> 3, Status |-> "FAILED"]
    /\ rep.touch.txn_id \in rep.failed_records

\* C28: over passes without forced retry no record is attempted more often
\* than the maximum attempt count
C28_AttemptsNeverExceedMaximum ==
    ~rep.forced => \A txn_id \in Orphans : rep.tracker[txn_id].AttemptCount <= max_fix_attempts

\* C29: an attempt whose first modify was answered with status 0 is recorded
\* as FIXED
C29_FirstSuccessMeansFixed ==
    (rep.pc \in {"pass", "idle"} /\ rep.touch.first_status = "ok")
    => rep.tracker[rep.touch.txn_id].Status = "FIXED"

\* C30: the first modify carries the EditSequence the orphan was detected
\* with; a second modify exists only after a first one answered with status 0,
\* carries the EditSequence of that answer and the memo read before the first
\* modify; after a failed first modify there is no second one
C30_ModifiesAreOrdered ==
    /\ rep.touch.first # NoModify =>
         /\ rep.touch.first.TxnID = rep.touch.txn_id
         /\ rep.touch.first.EditSequence = DetectedEditSequence
    /\ rep.touch.second # NoModify =>
         /\ rep.touch.first # NoModify /\ rep.touch.first_status = "ok"
         /\ rep.touch.new_edit_sequence \in EditSequences
         /\ rep.touch.second.TxnID = rep.touch.txn_id
         /\ rep.touch.second.EditSequence = rep.touch.new_edit_sequence
         /\ rep.touch.second.EditSequence # rep.touch.first.EditSequence
         /\ rep.touch.second.Memo = <<rep.touch.current_memo>>
    /\ rep.touch.first_status \in {"error", "raised"} => rep.touch.second = NoModify

\* Both modifies of a record with a memo were submitted, the second one with
\* the EditSequence 3 of the first answer
C30_Witness ==
    /\ rep.pc = "pass" /\ rep.touch.second # NoModify
    /\ rep.touch.current_memo = "memo" /\ rep.touch.second.EditSequence = 3
    /\ rep.tracker[rep.touch.txn_id].Status = "FIXED"

\* C31: every repair attempt records exactly one outcome for its record: the
\* attempt count grows by one, the status is FIXED when the first modify was
\* answered with status 0 and FAILED when it was not, and no other row
\* changes; a record that is skipped records nothing
C31_AttemptRecordsOneOutcome ==
    [][/\ (rep.pc \in {"first", "second"} /\ rep'.pc = "pass") =>
            /\ rep'.tracker[rep'.touch.txn_id].AttemptCount
                   = rep.tracker[rep'.touch.txn_id].AttemptCount + 1
            /\ rep'.tracker[rep'.touch.txn_id].Status
                   = IF rep'.touch.first_status = "ok" THEN "FIXED" ELSE "FAILED"
            /\ \A txn_id \in Orphans \ {rep'.touch.txn_id} :
                   rep'.tracker[txn_id] = rep.tracker[txn_id]
       /\ (rep.pc = "pass" /\ rep'.pc = "pass") => rep'.tracker = rep.tracker]_vars

----------------------------------------------------------------------------
\* Forced full sync

\* C32: a forced run reads no watermark and sends no date filter, and the
\* insert_records call of its final flush skips no record: every received key
\* that was stored is updated, also with an equal or older timestamp, and
\* the stored row carries the incoming timestamp
C32_ForcedRunOverwrites ==
    [][/\ run'.force =>
            /\ run'.last_sync_time = NoTime
            /\ pc' = "loop" => Request(run').modified_since = NoTime
       /\ (pc = "final" /\ pc' = "idle" /\ run.force /\ run.acc # {}
           /\ run'.ended # "exception") =>
            LET res == InsertRecords(rows, SeqOfSet(run.acc), "TEXT", run.force)
            IN /\ res.skip_count = 0
               /\ res.update_count = Cardinality(run.acc \cap DOMAIN rows)
               /\ res.insert_count = Cardinality(run.acc \ DOMAIN rows)
               /\ rows' = Normalize(res.rows)
               /\ \A k \in run.acc : rows'[k].tm = StrVal(ext[k])]_vars

\* A forced run ended with SUCCESS after a final flush of a record that was
\* stored with the same timestamp: the watermark before the run is the
\* maximum the run received
C32_Witness ==
    /\ pc = "idle" /\ run.force /\ run.final = SUCCESS /\ run.ended = "complete"
    /\ ~run.flushed /\ run.extracted # {}
    /\ run.before # NoTime /\ run.before = run.max_time_modified
    /\ \E k \in DOMAIN rows : rows[k].tm = StrVal(run.before)

----------------------------------------------------------------------------
\* The date filter of a query (quickbooks/query_builder.py)

\* The tables by the way their filter is looked up: the two deletion queries,
\* a table with a configured filter path, a table whose filter_paths entry
\* is "special", and a table without an entry
TableKinds == {"deletion", "configured", "special", "unlisted"}

\* A place of the query object where the date can be set: it is not there,
\* setting it works, or _set_date_value returns False
Places == {"absent", "set", "fails"}

\* The DeletedDateRangeFilter of a deletion query: setting it may raise
DeletionPlaces == {"absent", "set", "raises"}

QueryObjects == [direct : Places, configured : Places, generic : Places,
                 deleted : DeletionPlaces]

TryDirectDateFilter(query_obj) == query_obj.direct = "set"
ApplyConfiguredFilter(query_obj) == query_obj.configured = "set"
TryGenericFilterPaths(query_obj) == query_obj.generic = "set"

\* _apply_deletion_date_filter: True whether or not the value was set
ApplyDeletionDateFilter(query_obj) == TRUE

ApplyDateFilter(query_obj, kind) ==
    IF kind = "deletion" THEN ApplyDeletionDateFilter(query_obj)
    ELSE IF TryDirectDateFilter(query_obj) THEN TRUE
    ELSE IF kind = "configured" /\ ApplyConfiguredFilter(query_obj) THEN TRUE
    ELSE TryGenericFilterPaths(query_obj)

\* Whether a from-date was set somewhere on the query object by the call
DateWasSet(query_obj, kind) ==
    IF kind = "deletion" THEN query_obj.deleted = "set"
    ELSE \/ query_obj.direct = "set"
         \/ kind = "configured" /\ query_obj.configured = "set"
         \/ query_obj.generic = "set"

ConfigureQuery(query_obj, kind, last_sync_time) ==
    IF last_sync_time # NoTime THEN ApplyDateFilter(query_obj, kind) ELSE TRUE

InitFilter ==
    /\ rows = <<>> /\ tableExists = FALSE /\ modAffinity = "TEXT" /\ call = NoCall
    /\ sync_log = NoLog /\ now = 0 /\ outcome = NoOutcome /\ steps = 0
    /\ IdleSync /\ main = NoMain /\ rep = NoRepair /\ mgr = NoManager
    /\ schema = NoTable /\ sop = NoSchemaOp /\ registry = NoRegistry /\ frun = NoFieldRun
    /\ lineRows = {} /\ lcall = NoLineCall
    /\ observed = <<>> /\ seen = NoSeen
    /\ \E query_obj \in QueryObjects, kind \in TableKinds, last_sync_time \in {NoTime, 1} :
         qry = [pc |-> "created", query_obj |-> query_obj, kind |-> kind,
                last_sync_time |-> last_sync_time, filter_applied |-> FALSE,
                date_set |-> FALSE, warned |-> FALSE]

restOfFilter == <<storeVars, logVars, now, syncVars, schemaVars, lineVars, typeVars,
                  main, rep, mgr>>

\* The caller configures the query it created, logs the warning and goes on
\* to do_requests
ConfigureQueryCall ==
    /\ qry.pc = "created"
    /\ \E filter_applied \in {ConfigureQuery(qry.query_obj, qry.kind, qry.last_sync_time)} :
         qry' = [qry EXCEPT
                   !.pc = "requesting",
                   !.filter_applied = filter_applied,
                   !.date_set = /\ qry.last_sync_time # NoTime
                                /\ DateWasSet(qry.query_obj, qry.kind),
                   !.warned = qry.last_sync_time # NoTime /\ ~filter_applied]
    /\ UNCHANGED restOfFilter

NextFilter == ConfigureQueryCall

SpecFilter == InitFilter /\ [][NextFilter]_vars

\* C33: when a watermark was supplied and no from-date was set on the query
\* object, configure_query returns False, the caller logs the warning and
\* goes on to the request; for every kind of table, the deletion queries
\* included
C33_UnsetFilterIsReported ==
    (qry.pc = "requesting" /\ qry.last_sync_time # NoTime /\ ~qry.date_set)
        => ~qry.filter_applied /\ qry.warned

----------------------------------------------------------------------------
\* Termination of the page loop

\* The ways a run ends by an exception that leaves _sync_with_iterator
Raised == {"com_error", "session_invalid", "exception", "interrupted"}

\* The ways the loop is left by a break
Breaks == {"query_failed", "no_response", "qb_error", "no_records", "complete", "no_token"}

\* The modification times of the records the external system holds when the
\* first run starts (0: no such record)
ExtTimes == {0, 1}

\* Runs against an external system that holds finitely many records and
\* does not change
InitTermination ==
    /\ entity \in {e \in Entities : e.iterator}
    /\ ext \in [ExtKeys -> ExtTimes]
    /\ now = MaxOf({ext[k] : k \in ExtKeys})
    /\ rows = <<>> /\ tableExists = FALSE /\ modAffinity = "TEXT" /\ call = NoCall
    /\ sync_log = NoLog /\ outcome = NoOutcome /\ steps = 0
    /\ pc = "idle" /\ run = IdleRun /\ held = {} /\ lastGood = NoTime /\ runs = 0
    /\ IdleFields

NextTermination ==
    \/ StartSync
    \/ QueryCreateFails \/ RequestBusy \/ RequestComError \/ ResponseListEmpty
    \/ ErrorResponse \/ NoMoreRecords \/ PageResponse \/ PageWithoutToken \/ Finalize
    \/ RaiseException \/ KeyboardInterrupt

\* A step of the running sync: the thread that runs sync_table goes on (its
\* sleeps return, every request is answered or raises)
RunStep == pc # "idle" /\ NextTermination

\* Every page holds a record and a run is answered busy MaxBusy times at most
SpecTermination == InitTermination /\ [][NextTermination]_vars /\ WF_vars(RunStep)

----------------------------------------------------------------------------
\* Flush accounting of the iterator run

\* C35: fewer than FlushThreshold headers are accumulated after every page; a
\* flush hands over everything accumulated and empties the accumulator, so an
\* extracted header is either still accumulated or was handed to the store
\* exactly once; after a run that ended without an exception every extracted
\* header was handed over exactly once and is stored
C35_FlushAccounting ==
    /\ Cardinality(run.acc) < FlushThreshold
    /\ run.acc \subseteq run.taken
    /\ \A k \in ExtKeys :
         /\ run.handed[k] <= 1
         /\ k \in run.acc => run.handed[k] = 0
         /\ k \notin run.taken => run.handed[k] = 0
         /\ pc # "idle" /\ k \in run.taken \ run.acc => run.handed[k] = 1
    /\ pc = "idle" /\ run.ended \in Breaks =>
         \A k \in run.taken : run.handed[k] = 1 /\ k \in DOMAIN rows

\* A run extracted two headers, flushed them in the loop at the threshold and
\* ended without an exception
C35_Witness ==
    /\ pc = "idle" /\ run.ended = "complete" /\ run.flushed
    /\ run.taken = ExtKeys /\ \A k \in ExtKeys : run.handed[k] = 1

\* A run left the loop by an error status with one header accumulated and
\* the finalization flushed it
C35_WitnessFinalFlush ==
    /\ pc = "idle" /\ run.ended = "qb_error" /\ ~run.flushed
    /\ Cardinality(run.taken) = 1 /\ \A k \in run.taken : run.handed[k] = 1

----------------------------------------------------------------------------
\* Newest wins (SpecUpsert): the records of the list are upserted one after
\* the other, so a list with several records of one key is a sequence of
\* upserts of that key

\* The positions of the records of key k
RecordsOf(k) == {i \in Positions : call.records[i].key = k}

\* The timestamps seen for key k: the stored one and the incoming ones
SeenFor(k) ==
    (IF k \in DOMAIN call.before THEN {call.before[k].tm.v} ELSE {})
        \cup {call.records[i].tm.v : i \in RecordsOf(k)}

\* The stored and every incoming modification timestamp of key k is present
PresentFor(k) ==
    /\ k \in DOMAIN call.before => Truthy(call.before[k].tm)
    /\ \A i \in RecordsOf(k) : Truthy(call.records[i].tm)

\* No comparison of an incoming timestamp of key k with the stored one raises:
\* the column keeps every incoming timestamp as it is, and they are all of the
\* type of the stored one
ComparableFor(k) ==
    /\ \A i \in RecordsOf(k) :
         /\ ColumnStore(modAffinity, call.records[i].tm) = call.records[i].tm
         /\ k \in DOMAIN call.before => Comparable(call.records[i].tm, call.before[k].tm)
    /\ \A i, j \in RecordsOf(k) : Comparable(call.records[i].tm, call.records[j].tm)

\* After the records the timestamp stored for k has not decreased, it is the
\* greatest seen, and the row is the one of a record that carried it. (Every
\* prefix of a list is a list of its own, so this holds after every record.)
NewestWins(k) ==
    k \in DOMAIN rows =>
        /\ k \in DOMAIN call.before => rows[k].tm.v >= call.before[k].tm.v
        /\ rows[k].tm.v = MaxOf(SeenFor(k))
        /\ IF rows[k].data = 0
           THEN k \in DOMAIN call.before /\ rows[k] = call.before[k]
           ELSE /\ call.records[rows[k].data].key = k
                /\ call.records[rows[k].data].tm.v = MaxOf(SeenFor(k))

\* C36: under non-forced upserts in which the incoming and the stored
\* modification timestamps are present, the timestamp stored for a key never
\* decreases and the stored row is the incoming record with the greatest
\* timestamp seen so far
C36_NewestWins ==
    (call.done /\ ~call.force_update) =>
        \A k \in Keys : PresentFor(k) => NewestWins(k)

\* C36 (amended): the same, for timestamps that are present and can be
\* compared with the stored one (no comparison raises TypeError)
C36_NewestComparableWins ==
    (call.done /\ ~call.force_update) =>
        \A k \in Keys : (PresentFor(k) /\ ComparableFor(k)) => NewestWins(k)

\* A stored row of timestamp 1 got a record of timestamp 2 and then one of
\* timestamp 1 of the same key: overwritten by the first, the second skipped
C36_Witness ==
    /\ call.done /\ ~call.force_update /\ Len(call.records) = 2
    /\ \E k \in Keys :
         /\ k \in DOMAIN call.before /\ call.before[k].tm = StrVal(1)
         /\ call.records[1] = [key |-> k, tm |-> StrVal(2)]
         /\ call.records[2] = [key |-> k, tm |-> StrVal(1)]
         /\ rows[k].data = 1 /\ rows[k].tm = StrVal(2)
         /\ call.update_count = 1 /\ call.skip_count = 1

----------------------------------------------------------------------------
\* The statistics of a repair pass

\* C37: the statistics a repair pass returns satisfy detected = attempted +
\* skipped and attempted = fixed + failed, detected being the number of
\* orphans the detection returned: inside the loop the records still to
\* process make up the difference
C37_StatsAddUp ==
    /\ rep.pc = "pass" =>
         /\ rep.stats.detected
                = rep.stats.attempted + rep.stats.skipped + Cardinality(rep.todo)
         /\ rep.stats.attempted = rep.stats.fixed + rep.stats.failed
    /\ rep.pc \in {"first", "second"} =>
         /\ rep.stats.detected
                = rep.stats.attempted - 1 + rep.stats.skipped + Cardinality(rep.todo)
         /\ rep.stats.attempted = rep.stats.fixed + rep.stats.failed + 1
    /\ rep.pc = "idle" =>
         /\ rep.stats.detected = rep.stats.attempted + rep.stats.skipped
         /\ rep.stats.attempted = rep.stats.fixed + rep.stats.failed

\* A pass without forced retry over two orphans returned: one was skipped at
\* the maximum attempt count, the other attempted and fixed
C37_Witness ==
    /\ rep.pc = "idle" /\ ~rep.force_retry
    /\ rep.stats = [detected |-> 2, attempted |-> 1, fixed |-> 1, failed |-> 0,
                    skipped |-> 1]

----------------------------------------------------------------------------
\* The consecutive-failure count (SpecLog)

\* C38: every recorded outcome whose status is not SUCCESS (ERROR, BUSY,
\* LOCKED, EDITING, NOT_FOUND, NO_CONNECTION) increases the consecutive-failure
\* count of the entity by one, and only an outcome with status SUCCESS resets
\* it to zero
C38_FailuresCountNonSuccess ==
    [][steps' = steps + 1 =>
         sync_log'[entity.name].consecutive_failures
             = IF outcome'.status = SUCCESS THEN 0
               ELSE 1 + IF entity.name \in DOMAIN sync_log
                        THEN sync_log[entity.name].consecutive_failures ELSE 0]_vars

----------------------------------------------------------------------------
\* The sync manager front end (sync_manager.py): the Tk main thread starts
\* the sync subprocess and a reader thread for its output; both threads read
\* and write self.sync_process

MaxSyncs == 2   \* subprocesses started per behaviour
MaxLines == 1   \* output lines per subprocess

Pids == 1..MaxSyncs
NoProcess == [state |-> "none", exit |-> -1, returncode |-> -1, lines |-> 0]
ReturnCodes == {0, 1}

\* sync_process: 0 for None, else the pid of the Popen object it refers to;
\* procs[p].exit: the code the process exited with; procs[p].returncode: the
\* attribute of the Popen object (-1 for None until poll() or wait() saw the
\* exit); reader[p]: position of the reader thread started for p;
\* refresh, goal: the readers that scheduled load_sync_status and
\* check_goal_tracker_schedule with root.after
InitManager ==
    /\ rows = <<>> /\ tableExists = FALSE /\ modAffinity = "TEXT" /\ call = NoCall
    /\ sync_log = NoLog /\ now = 0 /\ outcome = NoOutcome /\ steps = 0
    /\ IdleSync /\ main = NoMain /\ rep = NoRepair /\ qry = NoQuery
    /\ schema = NoTable /\ sop = NoSchemaOp /\ registry = NoRegistry /\ frun = NoFieldRun
    /\ lineRows = {} /\ lcall = NoLineCall
    /\ observed = <<>> /\ seen = NoSeen
    /\ mgr = [sync_process |-> 0, started |-> 0,
              procs |-> [p \in Pids |-> NoProcess],
              reader |-> [p \in Pids |-> "none"],
              reported |-> [p \in Pids |-> "none"],
              refresh |-> {}, goal |-> {}]

restOfManager == <<storeVars, logVars, now, syncVars, schemaVars, lineVars, typeVars,
                   main, rep, qry>>

\* poll() on the Popen object of p: returncode is set once the process exited
Polled(procs, p) ==
    IF procs[p].state = "exited" THEN [procs EXCEPT ![p].returncode = procs[p].exit]
    ELSE procs

\* is_sync_running: there is a process reference and poll() returns None
IsSyncRunning(m) ==
    IF m.sync_process = 0 THEN FALSE ELSE m.procs[m.sync_process].state = "running"

\* run_command (main thread): a dead process reference is dropped, nothing is
\* started while a sync runs, else Popen and the reader thread
RunCommand ==
    /\ mgr.started < MaxSyncs
    /\ ~IsSyncRunning(mgr)
    /\ \E pid \in {mgr.started + 1} :
       \E polled \in {IF mgr.sync_process = 0 THEN mgr.procs
                      ELSE Polled(mgr.procs, mgr.sync_process)} :
         mgr' = [mgr EXCEPT !.started = pid, !.sync_process = pid,
                            !.procs = [polled EXCEPT ![pid].state = "running"],
                            !.reader[pid] = "reading"]
    /\ UNCHANGED restOfManager

\* check_process_health (main thread, every 5 seconds): the reference to a
\* terminated process is dropped
CheckProcessHealth ==
    /\ mgr.sync_process # 0 /\ mgr.procs[mgr.sync_process].state = "exited"
    /\ mgr' = [mgr EXCEPT !.procs = Polled(@, mgr.sync_process), !.sync_process = 0]
    /\ UNCHANGED restOfManager

\* The subprocess ends (by itself, or killed by stop_sync)
ProcessExits ==
    /\ \E p \in Pids, code \in ReturnCodes :
         /\ mgr.procs[p].state = "running"
         /\ mgr' = [mgr EXCEPT !.procs[p].state = "exited", !.procs[p].exit = code]
    /\ UNCHANGED restOfManager

\* The reader of p got a line and put it on the output queue
ReadLine ==
    /\ \E p \in Pids :
         /\ mgr.reader[p] = "reading" /\ mgr.procs[p].lines < MaxLines
         /\ mgr' = [mgr EXCEPT !.procs[p].lines = @ + 1]
    /\ UNCHANGED restOfManager

\* readline returned '': the pipe of the ended process is closed
EndOfOutput ==
    /\ \E p \in Pids :
         /\ mgr.reader[p] = "reading" /\ mgr.procs[p].state = "exited"
         /\ mgr' = [mgr EXCEPT !.reader[p] = "wait"]
    /\ UNCHANGED restOfManager

\* except Exception in the reader: self.sync_process was None when the reader
\* used it (AttributeError); the message is queued, the references are cleared
ReaderFails(p) ==
    mgr' = [mgr EXCEPT !.reader[p] = "done", !.reported[p] = "error", !.sync_process = 0]

\* self.sync_process.wait()
WaitProcess ==
    /\ \E p \in Pids :
         /\ mgr.reader[p] = "wait"
         /\ IF mgr.sync_process = 0 THEN ReaderFails(p)
            ELSE /\ mgr.procs[mgr.sync_process].state = "exited"
                 /\ mgr' = [mgr EXCEPT !.procs = Polled(@, mgr.sync_process),
                                       !.reader[p] = "report"]
    /\ UNCHANGED restOfManager

\* "PROCESS COMPLETED SUCCESSFULLY" or "PROCESS FAILED" by self.sync_process.returncode
ReportResult ==
    /\ \E p \in Pids :
         /\ mgr.reader[p] = "report"
         /\ IF mgr.sync_process = 0 THEN ReaderFails(p)
            ELSE mgr' = [mgr EXCEPT
                           !.reported[p] = IF mgr.procs[mgr.sync_process].returncode = 0
                                           THEN "completed" ELSE "failed",
                           !.reader[p] = "clear"]
    /\ UNCHANGED restOfManager

\* "Clear process references", then root.after(1000, self.load_sync_status)
ClearReferences ==
    /\ \E p \in Pids :
         /\ mgr.reader[p] = "clear"
         /\ mgr' = [mgr EXCEPT !.sync_process = 0, !.refresh = @ \cup {p},
                               !.reader[p] = "check"]
    /\ UNCHANGED restOfManager

\* if self.sync_process and self.sync_process.returncode == 0:
\*     self.root.after(2000, self.check_goal_tracker_schedule)
CheckGoalTracker ==
    /\ \E p \in Pids :
         /\ mgr.reader[p] = "check"
         /\ mgr' = [mgr EXCEPT
                      !.goal = IF /\ mgr.sync_process # 0
                                  /\ mgr.procs[mgr.sync_process].returncode = 0
                               THEN @ \cup {p} ELSE @,
                      !.reader[p] = "done"]
    /\ UNCHANGED restOfManager

NextManager ==
    \/ RunCommand \/ CheckProcessHealth \/ ProcessExits \/ ReadLine \/ EndOfOutput
    \/ WaitProcess \/ ReportResult \/ ClearReferences \/ CheckGoalTracker

SpecManager == InitManager /\ [][NextManager]_vars

\* C39: when the reader thread of a subprocess has finished after reporting
\* its exit, it has scheduled check_goal_tracker_schedule if the subprocess
\* exited with return code 0, and has not if it exited with another code
C39_SuccessSchedulesGoalTracker ==
    \A p \in Pids :
        (mgr.reader[p] = "done" /\ mgr.reported[p] # "error")
            => (p \in mgr.goal <=> mgr.procs[p].exit = 0)

============================================================================
